---------------------------- MODULE Spec2Model ----------------------------
(***************************************************************************)
(* A model of the uwasm loader and interpreter (darksv/uwasm).             *)
(*                                                                         *)
(*   Spec       the interpreter: a host running a sequence of              *)
(*              execute_function invocations on one VmContext, one         *)
(*              interpreter-loop iteration per step.                       *)
(*   SpecStack  the operand stack's primitive operations (VmStack).        *)
(*   SpecScan   the pre-scan of a function body (parse_code driving        *)
(*              parse_opcode), one opcode per step.                        *)
(*                                                                         *)
(* Bytes are naturals 0..255.  A 32-bit value is kept as the signed        *)
(* integer of its bit pattern (-2^31 .. 2^31-1); a 64-bit value is kept as *)
(* a record [hi, lo] of two such words.  Positions are 0-based as in the   *)
(* source, so the byte at position p of a sequence s is s[p+1].            *)
(***************************************************************************)
EXTENDS Integers, Sequences, FiniteSets, TLC, Bags

VARIABLES
    \* ---- build and module ----
    debug,        \* cfg(debug_assertions): TRUE for a debug build
    module,       \* the parsed WasmModule (functions, globals_offsets)
    \* ---- VmContext ----
    stack,        \* VmStack: [data, types]
    call_stack,   \* Vec<StackFrame>
    locals,       \* Vec<u8>, the locals arena
    profile,      \* ExecutionProfile.executed_instr_count
    \* ---- caller-owned buffers ----
    memory,
    globals,
    \* ---- the host and the invocation in progress ----
    pc,           \* "idle" | "running" | "returning" | "panicked";
                  \* "stack" in SpecStack, "load" in SpecLoad
    cur,          \* the inputs of the invocation in progress / last made
    result,       \* the outcome of the last invocation
    log,          \* the completed invocations: (inputs, outcome)
    ninv,         \* invocations started so far
    trace,        \* per invocation bookkeeping for the claims
    \* ---- the pre-scan (parse_code) ----
    rdata,        \* the reader's bytes
    rpos,         \* the reader's cursor
    pstate,       \* ParserState: [blocks, jump_targets]; parse's signatures
    pstatus,      \* "scanning" | "accepted" | "error" | "panicked" | "off";
                  \* parse: "header" | "sections" | "loaded" | "inited"
    marker,       \* the Marker parse_code takes: the body's first position
    \* ---- the stack exerciser ----
    lastop        \* the last VmStack operation and what it returned

vmVars   == <<debug, module, stack, call_stack, locals, profile, memory,
              globals, pc, cur, result, log, ninv, trace>>
scanVars == <<rdata, rpos, pstate, pstatus, marker>>
vars     == <<debug, module, stack, call_stack, locals, profile, memory,
              globals, pc, cur, result, log, ninv, trace,
              rdata, rpos, pstate, pstatus, marker, lastop>>

-----------------------------------------------------------------------------
(* Generic helpers *)

Bytes == 0..255

RECURSIVE Pow2(_)
Pow2(n) == IF n = 0 THEN 1 ELSE 2 * Pow2(n - 1)

Slice(s, from, to) == \* s[from .. to) with 0-based positions
    IF to <= from THEN <<>> ELSE SubSeq(s, from + 1, to)

RECURSIVE Flatten(_)
Flatten(ss) == IF ss = <<>> THEN <<>> ELSE Head(ss) \o Flatten(Tail(ss))

Zeros(n) == [i \in 1..n |-> 0]

RECURSIVE SumSeq(_)
SumSeq(s) == IF s = <<>> THEN 0 ELSE Head(s) + SumSeq(Tail(s))

MapPut(m, k, v) == [x \in (DOMAIN m) \cup {k} |-> IF x = k THEN v ELSE m[x]]

EmptyMap == [x \in {} |-> 0]

-----------------------------------------------------------------------------
(* parser.rs: TypeKind *)

Void == 64      \* 0x40
Func == 96      \* 0x60
FuncRef == 112  \* 0x70
F64 == 124      \* 0x7C
F32 == 125      \* 0x7D
I64 == 126      \* 0x7E
I32 == 127      \* 0x7F

TypeKinds == {Void, Func, FuncRef, F64, F32, I64, I32}
ValueKinds == {I32, I64, F32, F64}

\* TypeKind::len_bytes; the other kinds are todo!()
\* (todo!() for Void, Func and FuncRef, which no caller here passes)
len_bytes(ty) == IF ty \in {F64, I64} THEN 8 ELSE 4

-----------------------------------------------------------------------------
(* parser.rs: Reader.  Every read returns [st, val, pos]: st is "ok",      *)
(* an error name, or "panic" (the slice data[pos..] with pos > len).       *)

read_bytes(data, pos, n) ==
    IF pos > Len(data) THEN [st |-> "panic", val |-> <<>>, pos |-> pos]
    ELSE IF pos + n <= Len(data)
         THEN [st |-> "ok", val |-> Slice(data, pos, pos + n), pos |-> pos + n]
         ELSE [st |-> "EndOfStream", val |-> <<>>, pos |-> pos]

\* The byte of a one-byte read r
first_byte(r) == [st |-> r.st, val |-> IF r.st = "ok" THEN r.val[1] ELSE 0, pos |-> r.pos]

read_u8(data, pos) == first_byte(read_bytes(data, pos, 1))

\* read_number_raw: the loop, with result and shift as accumulators
\* (r is the byte the iteration read)
RECURSIVE read_number_loop(_, _, _, _)
RECURSIVE read_number_byte(_, _, _, _)
read_number_byte(data, acc, shift, r) ==
    IF r.st # "ok"
    THEN [st |-> r.st, val |-> 0, byte |-> 0, shift |-> shift, pos |-> r.pos]
    ELSE IF r.val < 128
         THEN [st |-> "ok", val |-> acc + (r.val % 128) * Pow2(shift), byte |-> r.val,
               shift |-> shift + 7, pos |-> r.pos]
         ELSE read_number_loop(data, r.pos, acc + (r.val % 128) * Pow2(shift), shift + 7)

read_number_loop(data, pos, acc, shift) ==
    read_number_byte(data, acc, shift, read_u8(data, pos))

read_number_raw(data, pos) == read_number_loop(data, pos, 0, 0)

\* read_unsigned's and read_signed's view of the raw number r
unsigned_of(r) == [st |-> r.st, val |-> r.val, pos |-> r.pos]

read_unsigned(data, pos) == unsigned_of(read_number_raw(data, pos))

\* result | (u64::MAX << shift), read as i64: result - 2^shift
signed_of(r) ==
    IF r.st = "ok" /\ r.shift < 64 /\ (r.byte \div 64) % 2 = 1
    THEN [st |-> "ok", val |-> r.val - Pow2(r.shift), pos |-> r.pos]
    ELSE [st |-> r.st, val |-> r.val, pos |-> r.pos]

read_signed(data, pos) == signed_of(read_number_raw(data, pos))

read_usize(data, pos) == read_unsigned(data, pos)
read_isize(data, pos) == read_signed(data, pos)

\* impl Item for TypeKind
TypeKind_of(r) ==
    IF r.st = "ok" /\ r.val \notin TypeKinds
    THEN [st |-> "InvalidValue", val |-> r.val, pos |-> r.pos]
    ELSE r

read_TypeKind(data, pos) == TypeKind_of(read_u8(data, pos))

-----------------------------------------------------------------------------
(* Values and their byte encodings (to_le_bytes / from_le_bytes).  The     *)
(* targets are little-endian, so to_ne_bytes is to_le_bytes.               *)

\* The same four bytes, most significant first
to_be_bytes_32(v) ==
    << (v \div 16777216) % 256, (v \div 65536) % 256, (v \div 256) % 256, v % 256 >>

to_le_bytes_32(v) ==
    << v % 256, (v \div 256) % 256, (v \div 65536) % 256, (v \div 16777216) % 256 >>

from_le_bytes_32(b) ==
    b[1] + 256 * b[2] + 65536 * b[3]
         + 16777216 * (IF b[4] >= 128 THEN b[4] - 256 ELSE b[4])

to_le_bytes_64(w) == to_le_bytes_32(w.lo) \o to_le_bytes_32(w.hi)

from_le_bytes_64(b) ==
    [lo |-> from_le_bytes_32(SubSeq(b, 1, 4)), hi |-> from_le_bytes_32(SubSeq(b, 5, 8))]

\* An integer of the 32-bit range widened to 64 bits (sign extension)
W64(v) == [hi |-> IF v < 0 THEN -1 ELSE 0, lo |-> v]

to_le_bytes(ty, v) == IF len_bytes(ty) = 8 THEN to_le_bytes_64(v) ELSE to_le_bytes_32(v)
from_le_bytes(ty, b) == IF len_bytes(ty) = 8 THEN from_le_bytes_64(b) ELSE from_le_bytes_32(b)

-----------------------------------------------------------------------------
(* interpreter.rs: VmStack.  stack = [data, types]; types is the debug     *)
(* build's kind-tag vector and stays empty in a release build.             *)

NewStack == [data |-> <<>>, types |-> <<>>]

push_bytes(st, ty, bytes) ==
    [data |-> st.data \o bytes,
     types |-> IF debug THEN Append(st.types, ty) ELSE st.types]

\* pop_bytes::<N>: [st, val, stack]
pop_bytes(st, n) ==
    IF Len(st.data) >= n
    THEN [st |-> "ok", val |-> Slice(st.data, Len(st.data) - n, Len(st.data)),
          stack |-> [st EXCEPT !.data = Slice(st.data, 0, Len(st.data) - n)]]
    ELSE [st |-> "StackTooSmall", val |-> <<>>, stack |-> st]

peek_bytes(st, n) ==
    IF Len(st.data) >= n
    THEN [st |-> "ok", val |-> Slice(st.data, Len(st.data) - n, Len(st.data))]
    ELSE [st |-> "StackTooSmall", val |-> <<>>]

\* #[cfg(debug_assertions)] self.types.pop();
types_pop(st) ==
    IF debug /\ st.types # <<>>
    THEN [st EXCEPT !.types = SubSeq(@, 1, Len(@) - 1)]
    ELSE st

\* pop_i32 / pop_i64 / pop_f32 / pop_f64 (and pop_u32): [st, val, stack]
pop_kind(st, ty) ==
    LET r == pop_bytes(types_pop(st), len_bytes(ty))
    IN  [st |-> r.st,
         val |-> IF r.st = "ok" THEN from_le_bytes(ty, r.val) ELSE 0,
         stack |-> r.stack]

pop_i32(st) == pop_kind(st, I32)
pop_i64(st) == pop_kind(st, I64)
pop_f32(st) == pop_kind(st, F32)
pop_f64(st) == pop_kind(st, F64)

push_kind(st, ty, v) == push_bytes(st, ty, to_le_bytes(ty, v))

push_i32(st, v) == push_kind(st, I32, v)
push_i64(st, v) == push_kind(st, I64, v)
push_f32(st, v) == push_kind(st, F32, v)
push_f64(st, v) == push_kind(st, F64, v)

\* pop_many's debug loop over the tags: [st, types]
RECURSIVE pop_many_types(_, _)
pop_many_types(types, remaining) ==
    IF remaining = 0 THEN [st |-> "ok", types |-> types]
    ELSE IF types = <<>> THEN [st |-> "panic", types |-> types]   \* expect("enough types")
    ELSE LET ty == types[Len(types)] IN
         IF len_bytes(ty) > remaining
         THEN [st |-> "panic", types |-> types]   \* remaining_bytes -= ..: overflow
         ELSE pop_many_types(SubSeq(types, 1, Len(types) - 1), remaining - len_bytes(ty))

\* pop_many: [st, stack]
pop_many(st, n_bytes) ==
    LET t == IF debug THEN pop_many_types(st.types, n_bytes)
             ELSE [st |-> "ok", types |-> st.types]
    IN  IF t.st # "ok" \/ n_bytes > Len(st.data)
        THEN [st |-> "panic", stack |-> st]
        ELSE [st |-> "ok",
              stack |-> [data |-> Slice(st.data, 0, Len(st.data) - n_bytes),
                         types |-> t.types]]

\* operand.rs: Operand::pop for the type TResult names; bool (TYPE = Void)
\* pops an i32 and compares it with 0.
Operand_pop(st, tres) ==
    LET r == pop_kind(st, IF tres = Void THEN I32 ELSE tres)
    IN  [st |-> IF r.st = "ok" THEN "ok" ELSE "EmptyStack",
         val |-> IF r.st = "ok" /\ tres = Void
                 THEN (IF r.val # 0 THEN 1 ELSE 0) ELSE r.val,
         stack |-> r.stack]

-----------------------------------------------------------------------------
(* lib.rs: the pre-scan walker, parse_opcode::<false>, and parse_code *)

\* The immediates parse_opcode reads after each opcode byte.
WalkerImm(op) ==
    CASE op \in {2, 3}                         -> "u8"       \* block, loop
      [] op = 4                                -> "type"     \* if
      [] op \in {12, 13}                       -> "leb"      \* br, br_if
      [] op = 14                               -> "brtable"
      [] op = 16                               -> "leb"      \* call
      [] op = 17                               -> "leb2"     \* call_indirect
      [] op \in 32..36                         -> "leb"      \* local.*, global.*
      [] op \in 40..53                         -> "leb2"     \* loads 0x28..0x35
      [] op \in {54, 55, 57, 58, 59, 61}       -> "leb2"     \* the stores it knows
      [] op = 64                               -> "leb"      \* memory.grow
      [] op \in {65, 66}                       -> "leb"      \* i32.const, i64.const
      [] op = 67                               -> "f32"
      [] op = 68                               -> "f64"
      [] OTHER                                 -> "none"

\* br_table's vector: n more LEB numbers
RECURSIVE skip_lebs(_, _, _)
RECURSIVE skip_lebs_after(_, _, _)
skip_lebs_after(data, r, n) ==
    IF r.st # "ok" THEN [st |-> r.st, pos |-> r.pos]
    ELSE skip_lebs(data, r.pos, n)

skip_lebs(data, pos, n) ==
    IF n = 0 THEN [st |-> "ok", pos |-> pos]
    ELSE skip_lebs_after(data, read_usize(data, pos), n - 1)

\* Reading immediates of the given shape: [st, pos]
skipped(r) == [st |-> r.st, pos |-> r.pos]

skip_imm(data, pos, shape) ==
    CASE shape = "none" -> [st |-> "ok", pos |-> pos]
      [] shape = "u8"   -> skipped(read_u8(data, pos))
      [] shape = "type" -> skipped(read_TypeKind(data, pos))
      [] shape = "leb"  -> skipped(read_usize(data, pos))
      [] shape = "leb2" -> skip_lebs(data, pos, 2)
      [] shape = "brtable" ->    \* the count, then count + 1 labels
            skip_lebs_after(data, read_usize(data, pos),
                            read_usize(data, pos).val + 1)
      [] shape = "f32"  -> skipped(read_bytes(data, pos, 4))
      [] shape = "f64"  -> skipped(read_bytes(data, pos, 8))

NewParserState == [blocks |-> <<>>, jump_targets |-> EmptyMap]

\* parse_opcode::<false>: [flow, pos, state]; flow is "Continue", "Break",
\* an error name, or "panic" (unwrap / assert_eq in the else arm).
\* The arm of opcode op, its immediates read as im
parse_opcode_arm(op, im, n, pos0, func_offset, state) ==
    IF im.st # "ok" THEN [flow |-> im.st, pos |-> im.pos, state |-> state]
    ELSE CASE op \in {2, 3, 4} ->
                [flow |-> "Continue", pos |-> im.pos,
                 state |-> [state EXCEPT !.blocks = Append(@,
                    [kind |-> CASE op = 2 -> "Block" [] op = 3 -> "Loop" [] op = 4 -> "If",
                     offset |-> pos0])]]
           [] op = 5 ->
                IF n = 0 \/ state.blocks[n].kind # "If"
                THEN [flow |-> "panic", pos |-> im.pos, state |-> state]
                ELSE [flow |-> "Continue", pos |-> im.pos,
                      state |-> [blocks |-> Append(SubSeq(state.blocks, 1, n - 1),
                                                   [kind |-> "Else", offset |-> pos0]),
                                 jump_targets |-> MapPut(state.jump_targets,
                                     state.blocks[n].offset, pos0 + 1 - func_offset)]]
           [] op = 11 ->
                IF n = 0
                THEN [flow |-> "Break", pos |-> im.pos, state |-> state]
                ELSE [flow |-> "Continue", pos |-> im.pos,
                      state |-> [blocks |-> SubSeq(state.blocks, 1, n - 1),
                                 jump_targets |-> MapPut(state.jump_targets,
                                     state.blocks[n].offset, pos0 + 1 - func_offset)]]
           [] OTHER -> [flow |-> "Continue", pos |-> im.pos, state |-> state]

\* The opcode byte was read as o
parse_opcode_at(data, o, pos0, func_offset, state) ==
    IF o.st # "ok" THEN [flow |-> o.st, pos |-> o.pos, state |-> state]
    ELSE parse_opcode_arm(o.val, skip_imm(data, o.pos, WalkerImm(o.val)),
                          Len(state.blocks), pos0, func_offset, state)

parse_opcode(data, pos0, func_offset, state) ==
    parse_opcode_at(data, read_u8(data, pos0), pos0, func_offset, state)

\* parse_code: the loop over parse_opcode from the marker, and the CodeInfo
RECURSIVE parse_code_loop(_, _, _, _)
RECURSIVE parse_code_after(_, _, _)
parse_code_after(data, mark, r) ==
    IF r.flow = "Continue" THEN parse_code_loop(data, r.pos, mark, r.state)
    ELSE IF r.flow = "Break"
         THEN [st |-> "ok", pos |-> r.pos, offset |-> mark,
               code |-> Slice(data, mark, r.pos),
               jump_targets |-> r.state.jump_targets]
         ELSE [st |-> r.flow, pos |-> r.pos, offset |-> mark,
               code |-> <<>>, jump_targets |-> EmptyMap]

parse_code_loop(data, pos, mark, state) ==
    parse_code_after(data, mark, parse_opcode(data, pos, mark, state))

parse_code(data, pos) == parse_code_loop(data, pos, pos, NewParserState)

-----------------------------------------------------------------------------
(* interpreter.rs: the immediates each handler of evaluate reads *)

InterpImm(op) ==
    CASE op \in {2, 3}      -> "leb"      \* block, loop: read_usize
      [] op = 4             -> "type"     \* if: read::<TypeKind>
      [] op \in {12, 13}    -> "leb"      \* br, br_if
      [] op = 14            -> "brtable"
      [] op = 16            -> "leb"      \* call
      [] op = 17            -> "leb2"     \* call_indirect
      [] op \in 32..36      -> "leb"      \* local.*, global.*
      [] op \in 40..62      -> "leb2"     \* every load and store 0x28..0x3e
      [] op \in {65, 66}    -> "leb"      \* i32.const (signed), i64.const
      [] op = 67            -> "f32"
      [] op = 68            -> "f64"
      [] OTHER              -> "none"

-----------------------------------------------------------------------------
(* The pre-scan as a state machine: SpecScan *)

\* Bounds of the scanned inputs
MaxScanTokens == 4

\* Instructions the scanned bodies are made of
ScanTokens == {
    <<2, 64>>,        \* block (void)
    <<3, 64>>,        \* loop (void)
    <<4, 127>>,       \* if (i32)
    <<5>>,            \* else
    <<11>>,           \* end
    <<12, 0>>,        \* br 0
    <<56, 2, 0>> }    \* f32.store align=2 offset=0

\* What precedes a body in the code section (body length, no local
\* declarations) and what may follow the code section (a data section).
ScanPrefix == <<0, 0>>
ScanSuffixes == { <<>>, <<11, 1, 0>> }

RECURSIVE SeqsUpTo(_, _)
SeqsUpTo(S, n) ==
    IF n = 0 THEN { <<>> }
    ELSE LET shorter == SeqsUpTo(S, n - 1)
         IN  shorter \cup { Append(q, x) : q \in shorter, x \in S }

ScanInputs ==
    { ScanPrefix \o Flatten(b) \o suf :
        b \in SeqsUpTo(ScanTokens, MaxScanTokens) \ { <<>> },
        suf \in ScanSuffixes }

ScanOff ==
    /\ rdata = <<>> /\ rpos = 0 /\ marker = 0
    /\ pstate = NewParserState /\ pstatus = "off"

\* One call of parse_opcode that came back as r
ScanApply(r, flowKinds, status) ==
    /\ r.flow \in flowKinds
    /\ rpos' = r.pos
    /\ pstate' = r.state
    /\ pstatus' = status

ScanStep(flowKinds, status) ==
    /\ pstatus = "scanning"
    /\ ScanApply(parse_opcode(rdata, rpos, marker, pstate), flowKinds, status)
    /\ UNCHANGED <<rdata, marker, lastop>>
    /\ UNCHANGED vmVars

\* parse_code's loop: ControlFlow::Continue
ScanContinue == ScanStep({"Continue"}, "scanning")
\* ControlFlow::Break: the body is accepted, CodeInfo is returned
ScanBreak == ScanStep({"Break"}, "accepted")
\* the ? of parse_code: a ParserError ends loading
ScanError == ScanStep({"EndOfStream", "InvalidValue"}, "error")
\* unwrap / assert_eq of the else arm
ScanPanic == ScanStep({"panic"}, "panicked")

NextScan == ScanContinue \/ ScanBreak \/ ScanError \/ ScanPanic

-----------------------------------------------------------------------------
(* lib.rs: WasmModule, Func, FuncBody as parse builds them *)

\* offsets_of_types
RECURSIVE offsets_from(_, _)
offsets_from(types, offset) ==
    IF types = <<>> THEN <<>>
    ELSE <<offset>> \o offsets_from(Tail(types), offset + len_bytes(Head(types)))

offsets_of_types(types) == offsets_from(types, 0)

RECURSIVE types_len(_)
types_len(types) ==
    IF types = <<>> THEN 0 ELSE len_bytes(Head(types)) + types_len(Tail(types))

NoBody == [signature |-> [params |-> <<>>, results |-> <<>>], offset |-> 0,
           code |-> <<>>, jump_targets |-> EmptyMap, locals_types |-> <<>>,
           locals_offsets |-> <<>>, params_len_in_bytes |-> 0,
           non_param_locals_len_in_bytes |-> 0]

\* The code section's loop body for one function: src gives the signature,
\* the declared locals, the instruction bytes and where they sit in the
\* module's byte stream.  The name is what the import / export section set.
FuncBody(src, locals_types, ci) ==
    [signature |-> [params |-> src.params, results |-> src.results],
     offset |-> ci.offset,
     code |-> ci.code,
     jump_targets |-> ci.jump_targets,
     locals_types |-> locals_types,
     locals_offsets |-> offsets_of_types(locals_types),
     params_len_in_bytes |-> types_len(src.params),
     non_param_locals_len_in_bytes |-> types_len(src.locals)]

BuildFunc(src) ==
    IF ~src.defined
    THEN [name |-> src.name, has_body |-> FALSE, body |-> NoBody]
    ELSE [name |-> src.name, has_body |-> TRUE,
          body |-> FuncBody(src, src.params \o src.locals,
                            parse_code(Zeros(src.offset) \o src.code, src.offset))]

BuildModule(srcs, global_kinds) ==
    [functions |-> [i \in 1..Len(srcs) |-> BuildFunc(srcs[i])],
     globals |-> [i \in 1..Len(global_kinds) |-> [kind |-> global_kinds[i]]],
     globals_offsets |-> offsets_of_types(global_kinds)]

\* WasmModule::get_function_by_index: Some iff the record's has is TRUE
get_function_by_index(m, index) ==
    IF index >= 0 /\ index < Len(m.functions) /\ m.functions[index + 1].has_body
    THEN [has |-> TRUE, body |-> m.functions[index + 1].body]
    ELSE [has |-> FALSE, body |-> NoBody]

\* WasmModule::get_function_index_by_name: the first position carrying it
get_function_index_by_name(m, name) ==
    LET hits == { i \in 1..Len(m.functions) : name \in m.functions[i].name }
    IN  IF hits = {} THEN [has |-> FALSE, idx |-> 0]
        ELSE [has |-> TRUE, idx |-> (CHOOSE i \in hits : \A j \in hits : i <= j) - 1]

-----------------------------------------------------------------------------
(* The module the interpreter runs in Spec.  A name is a set: empty for    *)
(* None, a singleton for Some(name).                                       *)

Src(name, defined, params, results, locs, code, offset) ==
    [name |-> name, defined |-> defined, params |-> params, results |-> results,
     locals |-> locs, code |-> code, offset |-> offset]

CoreSources == <<
    \* 0: import print
    Src({"print"}, FALSE, <<I32, I32>>, <<>>, <<>>, <<>>, 0),
    \* 1: id(i32) -> i32:  local.get 0; end
    Src({"id"}, TRUE, <<I32>>, <<I32>>, <<>>, <<32, 0, 11>>, 16),
    \* 2: boom(i32) -> i32, one i32 local:  i32.const 7; unreachable; end
    Src({"boom"}, TRUE, <<I32>>, <<I32>>, <<I32>>, <<65, 7, 0, 11>>, 24),
    \* 3: outer(i32) -> i32:  local.get 0; call 2; end
    Src({"outer"}, TRUE, <<I32>>, <<I32>>, <<>>, <<32, 0, 16, 2, 11>>, 32),
    \* 4: void(i32):  end
    Src({"void"}, TRUE, <<I32>>, <<>>, <<>>, <<11>>, 40),
    \* 5: setg(i32) -> i32:  local.get 0; global.set 0; local.get 0; end
    Src({"setg"}, TRUE, <<I32>>, <<I32>>, <<>>, <<32, 0, 36, 0, 32, 0, 11>>, 48),
    \* 6: dup(i32) -> (i32, i32):  local.get 0; local.get 0; end
    Src({"dup"}, TRUE, <<I32>>, <<I32, I32>>, <<>>, <<32, 0, 32, 0, 11>>, 56),
    \* 7: d64(i32) -> i32:  i64.const 1; drop; local.get 0; end
    Src({"d64"}, TRUE, <<I32>>, <<I32>>, <<>>, <<66, 1, 26, 32, 0, 11>>, 64),
    \* 8: ld(i32) -> i32:  local.get 0; i32.load 2 0; end
    Src({"ld"}, TRUE, <<I32>>, <<I32>>, <<>>, <<32, 0, 40, 2, 0, 11>>, 72),
    \* 9: st(i32) -> i32:  local.get 0; i32.const 7; i32.store 2 0; local.get 0; end
    Src({"st"}, TRUE, <<I32>>, <<I32>>, <<>>,
        <<32, 0, 65, 7, 54, 2, 0, 32, 0, 11>>, 80),
    \* 10: nop(i32) -> i32:  nop; local.get 0; end
    Src({"nop"}, TRUE, <<I32>>, <<I32>>, <<>>, <<1, 32, 0, 11>>, 96),
    \* 11: say(i32) -> i32:  i32.const 0; local.get 0; call 0; local.get 0; end
    Src({"say"}, TRUE, <<I32>>, <<I32>>, <<>>,
        <<65, 0, 32, 0, 16, 0, 32, 0, 11>>, 104) >>

CoreModule == BuildModule(CoreSources, <<I32>>)

-----------------------------------------------------------------------------
(* interpreter.rs: the interpreter state and its helpers *)

\* StackFrame::new and the frame do_call pushes.  (curr_loop_start is
\* written by block and loop and never read; it is left out.)
NewFrame(idx, locals_offset) ==
    [func_idx |-> idx, pos |-> 0, locals_offset |-> locals_offset, blocks |-> <<>>]

\* copy_params_and_locals: extend_from_slice, then resize with zeros
copy_params_and_locals(loc, params_data, func_body) ==
    loc \o params_data \o Zeros(func_body.non_param_locals_len_in_bytes)

\* WasmModule::get_imports: the names of the functions without a body
NoBodyFuncs(m) == SelectSeq(m.functions, LAMBDA f : ~f.has_body)
get_imports(m) == [i \in 1..Len(NoBodyFuncs(m)) |-> NoBodyFuncs(m)[i].name]

\* The imports slice the host passes: one callback for each name of
\* module.get_imports(), in that order (uwasm-perf and uwasm-uc main)
HostImports == get_imports(CoreModule)

\* The frame evaluate's loop works on, its function and the next opcode
Top == call_stack[Len(call_stack)]
CurBody == get_function_by_index(module, Top.func_idx).body
Fetch == read_u8(CurBody.code, Top.pos)

\* What one handler leaves: st is "ok" (next iteration), an error name
\* (evaluate returns Err) or "panic"
Out(st, stk, cs, loc, mem, glob) ==
    [st |-> st, stack |-> stk, call_stack |-> cs, locals |-> loc,
     memory |-> mem, globals |-> glob, called |-> <<>>]

AdvanceTop(p) == [call_stack EXCEPT ![Len(call_stack)].pos = p]

\* UntypedMemorySpan::read_param_raw::<N> on span: [st, val]
read_param_raw(span, offset, n) ==
    IF offset > Len(span) THEN [st |-> "InvalidOffset", val |-> <<>>]
    ELSE IF offset + n > Len(span) THEN [st |-> "InvalidLength", val |-> <<>>]
    ELSE [st |-> "ok", val |-> Slice(span, offset, offset + n)]

\* UntypedMemorySpan::write_param_raw::<N>: [st, span]
write_param_raw(span, offset, bytes) ==
    IF offset > Len(span) THEN [st |-> "InvalidOffset", span |-> span]
    ELSE IF offset + Len(bytes) > Len(span) THEN [st |-> "InvalidLength", span |-> span]
    ELSE [st |-> "ok",
          span |-> Slice(span, 0, offset) \o bytes
                   \o Slice(span, offset + Len(bytes), Len(span))]

\* UntypedMemorySpan::push_into: [st, stack]
push_into(span, stk, var_idx, var_type, offsets) ==
    IF var_idx >= Len(offsets) THEN [st |-> "InvalidVariable", stack |-> stk]
    ELSE LET r == read_param_raw(span, offsets[var_idx + 1], len_bytes(var_type)) IN
         IF r.st # "ok" THEN [st |-> r.st, stack |-> stk]
         ELSE [st |-> "ok", stack |-> push_bytes(stk, var_type, r.val)]

\* UntypedMemorySpan::pop_from: [st, stack, span]
pop_from(span, stk, var_idx, var_type, offsets) ==
    IF var_idx >= Len(offsets) THEN [st |-> "InvalidVariable", stack |-> stk, span |-> span]
    ELSE LET r == pop_kind(stk, var_type) IN
         IF r.st # "ok" THEN [st |-> r.st, stack |-> r.stack, span |-> span]
         ELSE LET w == write_param_raw(span, offsets[var_idx + 1],
                                       to_le_bytes(var_type, r.val))
              IN  [st |-> w.st, stack |-> r.stack, span |-> w.span]

-----------------------------------------------------------------------------
(* interpreter.rs: the opcode handlers of evaluate.  p is the reader's     *)
(* position just past the opcode byte; r is the immediate the handler read *)
(* there (Imm, ImmSigned).                                                 *)

\* reader.read_usize() / reader.read_isize() right after the opcode byte
Imm == read_usize(CurBody.code, Fetch.pos)
ImmSigned == read_isize(CurBody.code, Fetch.pos)
\* the second read_usize() of a handler with two immediates
Imm2 == read_usize(CurBody.code, Imm.pos)

\* A handler for 0x00 that lets the loop go on
exec_unreachable_resumes(p) ==
    Out("ok", stack, AdvanceTop(p), locals, memory, globals)

\* 0x00 unreachable
exec_unreachable(p) ==
    Out("Unreachable", stack, AdvanceTop(p), locals, memory, globals)

\* 0x0b end
exec_end(p) ==
    LET n == Len(call_stack)
        b == Top.blocks
    IN  Out("ok", stack,
            [call_stack EXCEPT ![n].pos = p,
                               ![n].blocks = IF b = <<>> THEN b
                                             ELSE SubSeq(b, 1, Len(b) - 1)],
            locals, memory, globals)

\* The host's `print` callback once size was popped as sz and ptr as pt:
\* ByteStr::from_bytes(&memory[ptr..][..size]); [st, stack]
print_slice(sz, pt, mem) ==
    IF sz.st # "ok" \/ pt.st # "ok" THEN [st |-> "panic", stack |-> pt.stack]
    ELSE IF pt.val < 0 \/ pt.val > Len(mem) \/ sz.val < 0 \/ sz.val > Len(mem) - pt.val
    THEN [st |-> "panic", stack |-> pt.stack]
    ELSE [st |-> "ok", stack |-> pt.stack]

\* size = stack.pop_i32().unwrap(); ptr = stack.pop_i32().unwrap()
print_after(sz, mem) == print_slice(sz, pop_i32(sz.stack), mem)
host_print(stk, mem) == print_after(pop_i32(stk), mem)

\* The callback of the given import name, handed the stack and the memory
host_callback(name, stk, mem) ==
    IF "print" \in name THEN host_print(stk, mem)
    ELSE [st |-> "ok", stack |-> stk]      \* halt: prints only

\* What the callback made of the stack, as one handler outcome
import_done(p, func_idx, r) ==
    [Out(r.st, r.stack, AdvanceTop(p), locals, memory, globals)
        EXCEPT !.called = <<[idx |-> func_idx, stack |-> stack, memory |-> memory]>>]

\* do_call's else branch skipping the callback
call_import_skipped(p, func_idx) ==
    Out("ok", stack, AdvanceTop(p), locals, memory, globals)

\* do_call's else branch: imports[func_idx](env, &mut ctx.stack, memory)
call_import(p, func_idx) ==
    IF func_idx >= Len(HostImports)
    THEN Out("panic", stack, AdvanceTop(p), locals, memory, globals)
    ELSE import_done(p, func_idx,
                     host_callback(HostImports[func_idx + 1], stack, memory))

\* A call that copies the arguments into the locals arena and leaves them on
\* the operand stack
do_call_keeping_args(p, func_idx) ==
    LET callee == get_function_by_index(module, func_idx)
        n == callee.body.params_len_in_bytes
    IN  Out("ok", stack, Append(AdvanceTop(p), NewFrame(func_idx, Len(locals))),
            copy_params_and_locals(
                locals, Slice(stack.data, Len(stack.data) - n, Len(stack.data)),
                callee.body),
            memory, globals)

\* A call whose frame takes the start of the arena as its locals_offset
do_call_at_arena_start(p, func_idx) ==
    LET callee == get_function_by_index(module, func_idx)
        n == callee.body.params_len_in_bytes
    IN  Out("ok", pop_many(stack, n).stack,
            Append(AdvanceTop(p), NewFrame(func_idx, 0)),
            copy_params_and_locals(
                locals, Slice(stack.data, Len(stack.data) - n, Len(stack.data)),
                callee.body),
            memory, globals)

\* do_call, with the caller's reader at p
do_call(p, func_idx) ==
    LET callee == get_function_by_index(module, func_idx) IN
    IF callee.has
    THEN LET n  == callee.body.params_len_in_bytes
             cs == Append(AdvanceTop(p), NewFrame(func_idx, Len(locals)))
         IN  IF n > Len(stack.data)
             THEN Out("panic", stack, cs, locals, memory, globals)
             ELSE LET params_mem == Slice(stack.data, Len(stack.data) - n, Len(stack.data))
                      loc == copy_params_and_locals(locals, params_mem, callee.body)
                      pm  == pop_many(stack, n)
                  IN  Out(pm.st, pm.stack, cs, loc, memory, globals)
    ELSE call_import(p, func_idx)

\* 0x10 call <func_idx>
exec_call(r) ==
    IF r.st # "ok" THEN Out(r.st, stack, AdvanceTop(r.pos), locals, memory, globals)
    ELSE do_call(r.pos, r.val)

\* 0x1a drop
exec_drop(p) ==
    LET r == pop_i32(stack)
    IN  Out(r.st, r.stack, AdvanceTop(p), locals, memory, globals)

\* 0x20 local.get <local>
exec_local_get(r) ==
    IF r.st # "ok" THEN Out(r.st, stack, AdvanceTop(r.pos), locals, memory, globals)
    ELSE IF Top.locals_offset > Len(locals) \/ r.val >= Len(CurBody.locals_types)
    THEN Out("panic", stack, AdvanceTop(r.pos), locals, memory, globals)
    ELSE LET g == push_into(Slice(locals, Top.locals_offset, Len(locals)), stack,
                            r.val, CurBody.locals_types[r.val + 1],
                            CurBody.locals_offsets)
         IN  Out(g.st, g.stack, AdvanceTop(r.pos), locals, memory, globals)

\* 0x24 global.set <global>
exec_global_set(r) ==
    IF r.st # "ok" THEN Out(r.st, stack, AdvanceTop(r.pos), locals, memory, globals)
    ELSE IF r.val >= Len(module.globals)
    THEN Out("panic", stack, AdvanceTop(r.pos), locals, memory, globals)
    ELSE LET g == pop_from(globals, stack, r.val, module.globals[r.val + 1].kind,
                           module.globals_offsets)
         IN  Out(g.st, g.stack, AdvanceTop(r.pos), locals, memory, g.span)

\* 0x41 i32.const <literal>
exec_i32_const(r) ==
    IF r.st # "ok" THEN Out(r.st, stack, AdvanceTop(r.pos), locals, memory, globals)
    ELSE Out("ok", push_i32(stack, r.val), AdvanceTop(r.pos), locals, memory, globals)

\* 0x42 i64.const <literal>
exec_i64_const(r) ==
    IF r.st # "ok" THEN Out(r.st, stack, AdvanceTop(r.pos), locals, memory, globals)
    ELSE Out("ok", push_i64(stack, W64(r.val)), AdvanceTop(r.pos), locals, memory, globals)

-----------------------------------------------------------------------------
(* interpreter.rs: Memory and the load / store handlers *)

\* Memory::read_bytes_at::<N>: [ok, val]
read_bytes_at(mem, offset, n) ==
    IF offset >= 0 /\ offset + n <= Len(mem)
    THEN [ok |-> TRUE, val |-> Slice(mem, offset, offset + n)]
    ELSE [ok |-> FALSE, val |-> <<>>]

\* Memory::write_bytes_at::<N>: [ok, mem]; ok is FALSE where assert! fails
write_bytes_at(mem, offset, bytes) ==
    IF offset >= 0 /\ offset + Len(bytes) <= Len(mem)
    THEN [ok |-> TRUE,
          mem |-> Slice(mem, 0, offset) \o bytes
                  \o Slice(mem, offset + Len(bytes), Len(mem))]
    ELSE [ok |-> FALSE, mem |-> mem]

\* The arms of 0x28..=0x35: bytes read, kind pushed, `as` sign-extending
LoadN(op) ==
    CASE op \in {40, 42, 52, 53} -> 4
      [] op \in {41, 43}         -> 8
      [] op \in {44, 45, 48, 49} -> 1
      [] op \in {46, 47, 50, 51} -> 2
LoadKind(op) ==
    CASE op \in {40, 44, 45, 46, 47} -> I32
      [] op = 42                     -> F32
      [] op = 43                     -> F64
      [] OTHER                       -> I64
LoadSigned(op) == op \in {44, 46, 48, 50, 52}

\* `as i32` / `as i64` on the bytes read: sign or zero extension to n bytes
Fill(n, byte) == [i \in 1..n |-> byte]
extend_bytes(b, n, signed) ==
    b \o Fill(n - Len(b), IF signed /\ b[Len(b)] >= 128 THEN 255 ELSE 0)

\* The arms of 0x36..=0x3e: kind popped and bytes written
StoreKind(op) ==
    CASE op \in {54, 58, 59} -> I32
      [] op = 56             -> F32
      [] op = 57             -> F64
      [] OTHER               -> I64
StoreN(op) ==
    CASE op \in {54, 56, 62} -> 4
      [] op \in {55, 57}     -> 8
      [] op \in {58, 60}     -> 1
      [] op \in {59, 61}     -> 2

\* The load once dyn_offset was popped as d (checked_add_signed, read, push)
load_at(op, fixed_offset, d, p) ==
    IF d.st # "ok" THEN Out(d.st, d.stack, AdvanceTop(p), locals, memory, globals)
    ELSE IF ~read_bytes_at(memory, fixed_offset + d.val, LoadN(op)).ok
    THEN Out("panic", d.stack, AdvanceTop(p), locals, memory, globals)
    ELSE Out("ok",
             push_bytes(d.stack, LoadKind(op),
                        extend_bytes(read_bytes_at(memory, fixed_offset + d.val, LoadN(op)).val,
                                     len_bytes(LoadKind(op)), LoadSigned(op))),
             AdvanceTop(p), locals, memory, globals)

\* 0x28..=0x35 loads; al and off are the two immediates as read
exec_load(op, al, off) ==
    IF al.st # "ok" THEN Out(al.st, stack, AdvanceTop(al.pos), locals, memory, globals)
    ELSE IF off.st # "ok" THEN Out(off.st, stack, AdvanceTop(off.pos), locals, memory, globals)
    ELSE load_at(op, off.val, pop_i32(stack), off.pos)

\* The store once the index was popped as d, the value being bytes
store_at(op, fixed_offset, d, bytes, p) ==
    IF d.st # "ok" THEN Out(d.st, d.stack, AdvanceTop(p), locals, memory, globals)
    ELSE IF ~write_bytes_at(memory, fixed_offset + d.val, bytes).ok
    THEN Out("panic", d.stack, AdvanceTop(p), locals, memory, globals)
    ELSE Out("ok", d.stack, AdvanceTop(p), locals,
             write_bytes_at(memory, fixed_offset + d.val, bytes).mem, globals)

\* The store once the value was popped as v
store_value(op, fixed_offset, v, p) ==
    IF v.st # "ok" THEN Out(v.st, v.stack, AdvanceTop(p), locals, memory, globals)
    ELSE store_at(op, fixed_offset, pop_i32(v.stack),
                  Slice(to_le_bytes(StoreKind(op), v.val), 0, StoreN(op)), p)

\* A store that writes every byte of the popped value, whatever its width
store_value_full(op, fixed_offset, v, p) ==
    IF v.st # "ok" THEN Out(v.st, v.stack, AdvanceTop(p), locals, memory, globals)
    ELSE store_at(op, fixed_offset, pop_i32(v.stack),
                  to_le_bytes(StoreKind(op), v.val), p)
exec_store_full(op, al, off) ==
    IF al.st # "ok" THEN Out(al.st, stack, AdvanceTop(al.pos), locals, memory, globals)
    ELSE IF off.st # "ok" THEN Out(off.st, stack, AdvanceTop(off.pos), locals, memory, globals)
    ELSE store_value_full(op, off.val, pop_kind(stack, StoreKind(op)), off.pos)

\* 0x36..=0x3e stores
exec_store(op, al, off) ==
    IF al.st # "ok" THEN Out(al.st, stack, AdvanceTop(al.pos), locals, memory, globals)
    ELSE IF off.st # "ok" THEN Out(off.st, stack, AdvanceTop(off.pos), locals, memory, globals)
    ELSE store_value(op, off.val, pop_kind(stack, StoreKind(op)), off.pos)

-----------------------------------------------------------------------------
(* interpreter.rs: numeric handlers.  An f64 is its bit pattern [hi, lo];   *)
(* the arithmetic is IEEE 754 on the doubles that hold an integer of       *)
(* magnitude below 2^30, where it is exact.                                *)

Low31(x) == IF x < 0 THEN (x + 2147483647) + 1 ELSE x     \* bits 0..30
TopBit(x) == IF x < 0 THEN 1 ELSE 0                       \* bit 31

RECURSIVE Log2(_)
Log2(m) == IF m < 2 THEN 0 ELSE 1 + Log2(m \div 2)

f64_exponent(w) == (Low31(w.hi) \div 1048576) - 1023
f64_mantissa_hi(w) == Low31(w.hi) % 1048576
f64_is_zero(w) == Low31(w.hi) = 0 /\ w.lo = 0              \* +0.0 or -0.0

\* The fraction bits below the binary point are all zero
f64_fraction_clear(w, e) ==
    IF e <= 20 THEN w.lo = 0 /\ f64_mantissa_hi(w) % Pow2(20 - e) = 0
    ELSE IF e = 21 THEN Low31(w.lo) = 0
    ELSE Low31(w.lo) % Pow2(52 - e) = 0

\* The mantissa bits above the binary point
f64_fraction_int(w, e) ==
    IF e <= 20 THEN f64_mantissa_hi(w) \div Pow2(20 - e)
    ELSE f64_mantissa_hi(w) * Pow2(e - 20)
         + (IF e = 21 THEN TopBit(w.lo)
            ELSE TopBit(w.lo) * Pow2(e - 21) + Low31(w.lo) \div Pow2(52 - e))

\* w holds an integer of magnitude below 2^30
f64_small_int(w) ==
    \/ f64_is_zero(w)
    \/ /\ f64_exponent(w) \in 0..29
       /\ f64_fraction_clear(w, f64_exponent(w))

\* `as` from f64 to the integer it holds
f64_to_int(w) ==
    IF f64_is_zero(w) THEN 0
    ELSE (IF w.hi < 0 THEN -1 ELSE 1)
         * (Pow2(f64_exponent(w)) + f64_fraction_int(w, f64_exponent(w)))

\* The double of magnitude m >= 1 with exponent e, negative iff neg
f64_of_parts(neg, e, frac) ==
    [hi |-> (1023 + e) * 1048576
            + (IF e <= 20 THEN frac * Pow2(20 - e) ELSE frac \div Pow2(e - 20))
            + (IF neg THEN -2147483647 - 1 ELSE 0),
     lo |-> IF e <= 20 THEN 0
            ELSE (IF e = 21 THEN 0
                  ELSE ((frac % Pow2(e - 20)) % Pow2(e - 21)) * Pow2(52 - e))
                 + (IF (frac % Pow2(e - 20)) \div Pow2(e - 21) = 1
                    THEN -2147483647 - 1 ELSE 0)]
f64_of_magnitude(neg, m) == f64_of_parts(neg, Log2(m), m - Pow2(Log2(m)))

\* `as f64` on an integer
int_to_f64(v) ==
    IF v = 0 THEN [hi |-> 0, lo |-> 0]
    ELSE f64_of_magnitude(v < 0, IF v < 0 THEN -v ELSE v)

f64_lt(a, b)  == int_to_f64(IF f64_to_int(a) < f64_to_int(b) THEN 1 ELSE 0)
f64_sub(a, b) == int_to_f64(f64_to_int(a) - f64_to_int(b))
f64_add(a, b) == int_to_f64(f64_to_int(a) + f64_to_int(b))
f64_mul(a, b) == int_to_f64(f64_to_int(a) * f64_to_int(b))

\* i32 `a - b` on 16-bit halves: the wrapped difference
i32_high_sub(a, b) ==
    (a \div 65536) - (b \div 65536) - (IF a % 65536 < b % 65536 THEN 1 ELSE 0)
i32_wrapping_sub(a, b) ==
    (((i32_high_sub(a, b) + 32768) % 65536) - 32768) * 65536
    + (((a % 65536) - (b % 65536)) % 65536)
\* i32 `a + b`: the wrapped sum
i32_wrapping_add(a, b) == i32_wrapping_sub(a, i32_wrapping_sub(0, b))
i32_add_overflows(a, b) ==
    \/ b > 0 /\ a > 2147483647 - b
    \/ b < 0 /\ a < (-2147483647 - 1) - b
i32_sub_overflows(a, b) ==
    \/ b > 0 /\ a < (-2147483647 - 1) + b
    \/ b < 0 /\ a > 2147483647 + b

\* i32 `a.wrapping_mul(b)`: the low four bytes of the product, column by
\* column with the carries
mul_col0(x, y) == x[1] * y[1]
mul_col1(x, y) == x[1] * y[2] + x[2] * y[1] + (mul_col0(x, y) \div 256)
mul_col2(x, y) == x[1] * y[3] + x[2] * y[2] + x[3] * y[1] + (mul_col1(x, y) \div 256)
mul_col3(x, y) ==
    x[1] * y[4] + x[2] * y[3] + x[3] * y[2] + x[4] * y[1] + (mul_col2(x, y) \div 256)
mul_bytes(x, y) ==
    << mul_col0(x, y) % 256, mul_col1(x, y) % 256, mul_col2(x, y) % 256,
       mul_col3(x, y) % 256 >>
i32_wrapping_mul(a, b) ==
    from_le_bytes_32(mul_bytes(to_le_bytes_32(a), to_le_bytes_32(b)))

\* i32 `a >> b`: the arithmetic shift, by b & 31 where the build lets a count
\* outside 0..31 through
i32_shr(a, b) ==
    IF b % 32 = 31 THEN (IF a < 0 THEN -1 ELSE 0) ELSE a \div Pow2(b % 32)
i32_shift_overflows(b) == b < 0 \/ b >= 32

\* A right shift that shifts zeros in
i32_shr_logical(a, b) ==
    IF b % 32 = 0 THEN a
    ELSE IF b % 32 = 31 THEN (IF a < 0 THEN 1 ELSE 0)
    ELSE IF a >= 0 THEN a \div Pow2(b % 32)
    ELSE ((a + 2147483647) + 1) \div Pow2(b % 32) + Pow2(31 - (b % 32))

\* The element of a one-element set, its expression evaluated once
The(S) == CHOOSE x \in S : TRUE

\* The closure a handler passes to inplace_bin_op, by the handler's name
bin_op(name, a, b) ==
    CASE name = "f64.lt"  -> f64_lt(a, b)
      [] name = "f64.sub" -> f64_sub(a, b)
      [] name = "f64.mul" -> f64_mul(a, b)
      [] name = "i32.sub" -> i32_wrapping_sub(a, b)
      [] name = "i32.add" -> i32_wrapping_add(a, b)
      [] name = "i32.mul" -> i32_wrapping_mul(a, b)
      [] name = "i32.shr_u" -> i32_shr(a, b)

\* VmStack::inplace_bin_op: b is popped first, then a: [st, stack]
bin_op_second(a, b, tr, name) ==
    IF a.st # "ok" THEN [st |-> a.st, stack |-> a.stack]
    ELSE [st |-> "ok",
          stack |-> The({push_kind(a.stack, tr, r) : r \in {bin_op(name, a.val, b.val)}})]
bin_op_first(b, ta, tr, name) ==
    IF b.st # "ok" THEN [st |-> b.st, stack |-> b.stack]
    ELSE The({bin_op_second(a, b, tr, name) : a \in {pop_kind(b.stack, ta)}})
inplace_bin_op(st, ta, tb, tr, name) ==
    The({bin_op_first(b, ta, tr, name) : b \in {pop_kind(st, tb)}})

\* A handler that is one stack operation which came back as r
stack_op(r, p) == Out(r.st, r.stack, AdvanceTop(p), locals, memory, globals)

\* The operands a (below) and b (on top) of a binary handler, if present
OperandA(ta, tb) == pop_kind(pop_kind(stack, tb).stack, ta)
OperandB(tb) == pop_kind(stack, tb)

\* 0x63 f64.lt, 0xa1 f64.sub, 0xa2 f64.mul
exec_f64_lt(p)  == stack_op(inplace_bin_op(stack, F64, F64, F64, "f64.lt"), p)
exec_f64_sub(p) == stack_op(inplace_bin_op(stack, F64, F64, F64, "f64.sub"), p)
exec_f64_mul(p) == stack_op(inplace_bin_op(stack, F64, F64, F64, "f64.mul"), p)

\* 0x6b i32.sub: `a - b` panics on overflow where overflow checks are on
exec_i32_sub(p) ==
    IF /\ debug /\ OperandA(I32, I32).st = "ok"
       /\ i32_sub_overflows(OperandA(I32, I32).val, OperandB(I32).val)
    THEN Out("panic", OperandA(I32, I32).stack, AdvanceTop(p), locals, memory, globals)
    ELSE stack_op(inplace_bin_op(stack, I32, I32, I32, "i32.sub"), p)

\* 0x44 f64.const <literal>: read_f64, then push_f64
exec_f64_const(r) ==
    IF r.st # "ok" THEN Out(r.st, stack, AdvanceTop(r.pos), locals, memory, globals)
    ELSE Out("ok", push_f64(stack, from_le_bytes(F64, r.val)), AdvanceTop(r.pos),
             locals, memory, globals)

\* `!= 0` / `!= 0.0` on a popped value of kind ty
is_nonzero(ty, v) ==
    CASE ty = I32 -> v # 0
      [] ty = I64 -> v.hi # 0 \/ v.lo # 0
      [] ty = F32 -> Low31(v) # 0
      [] ty = F64 -> ~f64_is_zero(v)

\* current_func.jump_targets[&pos] with pos = offset + the opcode's position
JumpKey == CurBody.offset + Top.pos
HasJumpTarget == JumpKey \in DOMAIN CurBody.jump_targets
JumpTarget == CurBody.jump_targets[JumpKey]

\* 0x04 if, the condition having been popped as c
if_popped(ty, c, p) ==
    IF c.st # "ok" THEN Out(c.st, c.stack, AdvanceTop(p), locals, memory, globals)
    ELSE IF is_nonzero(ty, c.val)
    THEN Out("ok", c.stack, AdvanceTop(p), locals, memory, globals)
    ELSE IF ~HasJumpTarget
    THEN Out("panic", c.stack, AdvanceTop(p), locals, memory, globals)
    ELSE Out("ok", c.stack, AdvanceTop(JumpTarget), locals, memory, globals)

\* 0x04 if <TypeKind>: the condition is popped as a value of that kind
exec_if(t) ==
    IF t.st # "ok" THEN Out(t.st, stack, AdvanceTop(t.pos), locals, memory, globals)
    ELSE IF t.val \in {Void, Func, FuncRef}
    THEN Out("panic", stack, AdvanceTop(t.pos), locals, memory, globals)   \* todo!()
    ELSE if_popped(t.val, pop_kind(stack, t.val), t.pos)

\* 0x05 else: reader.skip_to(jump_targets[&pos] + 1)
exec_else(p) ==
    IF ~HasJumpTarget THEN Out("panic", stack, AdvanceTop(p), locals, memory, globals)
    ELSE Out("ok", stack, AdvanceTop(JumpTarget + 1), locals, memory, globals)

-----------------------------------------------------------------------------
(* interpreter.rs: blocks and branches.  A block descriptor (BlockMeta) is *)
(* [kind, offset, body_offset]: offset is current_func.offset + the        *)
(* opcode's position, body_offset the reader's position past the          *)
(* block-type immediate.                                                   *)

BlockMeta(kind, offset, body_offset) ==
    [kind |-> kind, offset |-> offset, body_offset |-> body_offset]

PushBlock(meta, p) ==
    [call_stack EXCEPT ![Len(call_stack)].pos = p,
                       ![Len(call_stack)].blocks = Append(@, meta)]

\* 0x02 block / 0x03 loop <block type>: the descriptor is pushed
exec_opening(kind, r) ==
    IF r.st # "ok" THEN Out(r.st, stack, AdvanceTop(r.pos), locals, memory, globals)
    ELSE Out("ok", stack, PushBlock(BlockMeta(kind, JumpKey, r.pos), r.pos),
             locals, memory, globals)

\* A branch that re-enters a loop at the loop opcode itself
do_branch_to_opening(blocks, jump_targets, depth) ==
    IF depth >= Len(blocks) THEN [st |-> "panic", target |-> 0, blocks |-> blocks]
    ELSE [st |-> "ok",
          target |-> IF blocks[Len(blocks) - depth].kind = "Loop"
                     THEN blocks[Len(blocks) - depth].body_offset - 2
                     ELSE jump_targets[blocks[Len(blocks) - depth].offset] - 1,
          blocks |-> SubSeq(blocks, 1, Len(blocks) - depth)]

\* A branch that counts the depth from the bottom of the block stack
do_branch_from_bottom(blocks, jump_targets, depth) ==
    IF depth >= Len(blocks) THEN [st |-> "panic", target |-> 0, blocks |-> blocks]
    ELSE [st |-> "ok",
          target |-> IF blocks[depth + 1].kind = "Loop"
                     THEN blocks[depth + 1].body_offset
                     ELSE jump_targets[blocks[depth + 1].offset] - 1,
          blocks |-> SubSeq(blocks, 1, depth + 1)]

\* do_branch: [st, target, blocks].  `blocks.len() - 1 - depth` overflows
\* (or, wrapped, indexes out of bounds) when depth >= blocks.len(); the
\* index into jump_targets panics on a missing key.
do_branch(blocks, jump_targets, depth) ==
    IF depth >= Len(blocks) THEN [st |-> "panic", target |-> 0, blocks |-> blocks]
    ELSE IF blocks[Len(blocks) - depth].kind = "Loop"
    THEN [st |-> "ok", target |-> blocks[Len(blocks) - depth].body_offset,
          blocks |-> SubSeq(blocks, 1, Len(blocks) - depth)]
    ELSE IF blocks[Len(blocks) - depth].offset \notin DOMAIN jump_targets
    THEN [st |-> "panic", target |-> 0, blocks |-> blocks]
    ELSE [st |-> "ok", target |-> jump_targets[blocks[Len(blocks) - depth].offset] - 1,
          blocks |-> SubSeq(blocks, 1, Len(blocks) - depth)]

\* let target = do_branch(..); frame.reader.skip_to(target), on the operand
\* stack stk; the reader stood at p
branch_to(b, stk, p) ==
    IF b.st # "ok" THEN Out("panic", stk, AdvanceTop(p), locals, memory, globals)
    ELSE Out("ok", stk,
             [call_stack EXCEPT ![Len(call_stack)].pos = b.target,
                                ![Len(call_stack)].blocks = b.blocks],
             locals, memory, globals)

take_branch(depth, stk, p) ==
    branch_to(do_branch(Top.blocks, CurBody.jump_targets, depth), stk, p)

\* 0x0c br <depth>
exec_br(r) ==
    IF r.st # "ok" THEN Out(r.st, stack, AdvanceTop(r.pos), locals, memory, globals)
    ELSE take_branch(r.val, stack, r.pos)

\* 0x0d br_if <depth>, the condition having been popped as c
br_if_popped(r, c) ==
    IF c.st # "ok" THEN Out(c.st, c.stack, AdvanceTop(r.pos), locals, memory, globals)
    ELSE IF c.val # 0 THEN take_branch(r.val, c.stack, r.pos)
    ELSE Out("ok", c.stack, AdvanceTop(r.pos), locals, memory, globals)

exec_br_if(r) ==
    IF r.st # "ok" THEN Out(r.st, stack, AdvanceTop(r.pos), locals, memory, globals)
    ELSE br_if_popped(r, pop_i32(stack))

\* br_table's loop `for idx in idx..n`: reads each depth and keeps the one
\* whose index is the selector: [st, pos, has, depth]
RECURSIVE br_table_depths(_, _, _, _, _, _)
br_table_read(data, d, n, idx, val, sel) ==
    IF d.st # "ok" THEN [st |-> d.st, pos |-> d.pos, has |-> FALSE, depth |-> 0]
    ELSE br_table_depths(data, d.pos, n, idx + 1, val,
                         IF idx = val THEN [has |-> TRUE, depth |-> d.val] ELSE sel)
br_table_depths(data, pos, n, idx, val, sel) ==
    IF idx >= n THEN [st |-> "ok", pos |-> pos, has |-> sel.has, depth |-> sel.depth]
    ELSE The({br_table_read(data, d, n, idx, val, sel) : d \in {read_usize(data, pos)}})

\* A table that always takes its default
br_table_default_only(sel, dflt, stk) ==
    IF sel.st # "ok" THEN Out(sel.st, stk, AdvanceTop(sel.pos), locals, memory, globals)
    ELSE IF dflt.st # "ok"
    THEN Out(dflt.st, stk, AdvanceTop(dflt.pos), locals, memory, globals)
    ELSE take_branch(dflt.val, stk, dflt.pos)

\* selected_depth.unwrap_or(default_depth), the default having been read
br_table_selected(sel, dflt, stk) ==
    IF sel.st # "ok" THEN Out(sel.st, stk, AdvanceTop(sel.pos), locals, memory, globals)
    ELSE IF dflt.st # "ok"
    THEN Out(dflt.st, stk, AdvanceTop(dflt.pos), locals, memory, globals)
    ELSE take_branch(IF sel.has THEN sel.depth ELSE dflt.val, stk, dflt.pos)

br_table_listed(sel, stk) ==
    The({br_table_selected(sel, d, stk) : d \in {read_usize(CurBody.code, sel.pos)}})

br_table_counted(n, v) ==
    IF n.st # "ok" THEN Out(n.st, v.stack, AdvanceTop(n.pos), locals, memory, globals)
    ELSE The({br_table_listed(sel, v.stack) :
                 sel \in {br_table_depths(CurBody.code, n.pos, n.val, 0, v.val,
                                          [has |-> FALSE, depth |-> 0])}})

\* 0x0e br_table: the selector is popped before the immediates are read
exec_br_table(v, p) ==
    IF v.st # "ok" THEN Out(v.st, v.stack, AdvanceTop(p), locals, memory, globals)
    ELSE The({br_table_counted(n, v) : n \in {read_usize(CurBody.code, p)}})

\* UntypedMemorySpan::copy_from: the top of the stack is peeked, not popped:
\* [st, span]
copy_from_peeked(span, k, offset) ==
    IF k.st # "ok" THEN [st |-> k.st, span |-> span]
    ELSE write_param_raw(span, offset, k.val)
copy_from(span, stk, var_idx, var_type, offsets) ==
    IF var_idx >= Len(offsets) THEN [st |-> "InvalidVariable", span |-> span]
    ELSE copy_from_peeked(span, peek_bytes(stk, len_bytes(var_type)),
                          offsets[var_idx + 1])

\* The arena with the current frame's span replaced by span
WithFrameSpan(span) == Slice(locals, 0, Top.locals_offset) \o span
FrameSpan == Slice(locals, Top.locals_offset, Len(locals))

\* A local.set that keeps the frame's span as the whole arena
local_set_in_arena(g, p) ==
    Out(g.st, g.stack, AdvanceTop(p), g.span, memory, globals)

\* 0x21 local.set <local>
local_set_popped(g, p) ==
    Out(g.st, g.stack, AdvanceTop(p), WithFrameSpan(g.span), memory, globals)

exec_local_set(r) ==
    IF r.st # "ok" THEN Out(r.st, stack, AdvanceTop(r.pos), locals, memory, globals)
    ELSE IF Top.locals_offset > Len(locals) \/ r.val >= Len(CurBody.locals_types)
    THEN Out("panic", stack, AdvanceTop(r.pos), locals, memory, globals)
    ELSE local_set_popped(pop_from(FrameSpan, stack, r.val,
                                   CurBody.locals_types[r.val + 1],
                                   CurBody.locals_offsets), r.pos)

\* 0x22 local.tee <local>
local_tee_copied(g, p) ==
    Out(g.st, stack, AdvanceTop(p), WithFrameSpan(g.span), memory, globals)

exec_local_tee(r) ==
    IF r.st # "ok" THEN Out(r.st, stack, AdvanceTop(r.pos), locals, memory, globals)
    ELSE IF Top.locals_offset > Len(locals) \/ r.val >= Len(CurBody.locals_types)
    THEN Out("panic", stack, AdvanceTop(r.pos), locals, memory, globals)
    ELSE local_tee_copied(copy_from(FrameSpan, stack, r.val,
                                    CurBody.locals_types[r.val + 1],
                                    CurBody.locals_offsets), r.pos)

\* 0x6a i32.add: `a + b` panics on overflow where overflow checks are on
exec_i32_add(p) ==
    IF /\ debug /\ OperandA(I32, I32).st = "ok"
       /\ i32_add_overflows(OperandA(I32, I32).val, OperandB(I32).val)
    THEN Out("panic", OperandA(I32, I32).stack, AdvanceTop(p), locals, memory, globals)
    ELSE stack_op(inplace_bin_op(stack, I32, I32, I32, "i32.add"), p)

\* 0x6c i32.mul
exec_i32_mul(p) == stack_op(inplace_bin_op(stack, I32, I32, I32, "i32.mul"), p)

\* 0x76 i32.shr_u: `a >> b` on i32 operands; a count outside 0..31 is an
\* overflow, a panic in a debug build
exec_i32_shr_u(p) ==
    IF /\ debug /\ OperandA(I32, I32).st = "ok"
       /\ i32_shift_overflows(OperandB(I32).val)
    THEN Out("panic", OperandA(I32, I32).stack, AdvanceTop(p), locals, memory, globals)
    ELSE stack_op(inplace_bin_op(stack, I32, I32, I32, "i32.shr_u"), p)

\* The closure a handler passes to inplace_unary_op: [st, val]
unary_op(name, a) ==
    CASE name = "i32.wrap_i64" ->                 \* i32::try_from(a & 0xffffffff).unwrap()
            IF a.lo < 0 THEN [st |-> "panic", val |-> 0] ELSE [st |-> "ok", val |-> a.lo]
      [] name = "i64.extend_i32_u" -> [st |-> "ok", val |-> W64(a)]    \* i64::from(a)
      [] name = "i32.extend8_s" -> [st |-> "ok", val |-> a]            \* |a: i32| a

\* VmStack::inplace_unary_op: [st, stack]
unary_op_done(a, r, tr) ==
    IF r.st # "ok" THEN [st |-> r.st, stack |-> a.stack]
    ELSE [st |-> "ok", stack |-> push_kind(a.stack, tr, r.val)]
unary_op_popped(a, tr, name) ==
    IF a.st # "ok" THEN [st |-> a.st, stack |-> a.stack]
    ELSE unary_op_done(a, unary_op(name, a.val), tr)
inplace_unary_op(st, ta, tr, name) == unary_op_popped(pop_kind(st, ta), tr, name)

\* 0xa7 i32.wrap_i64, 0xad i64.extend_i32_u, 0xc0 i32.extend8_s
exec_i32_wrap_i64(p) == stack_op(inplace_unary_op(stack, I64, I32, "i32.wrap_i64"), p)
exec_i64_extend_i32_u(p) ==
    stack_op(inplace_unary_op(stack, I32, I64, "i64.extend_i32_u"), p)
exec_i32_extend8_s(p) == stack_op(inplace_unary_op(stack, I32, I32, "i32.extend8_s"), p)

\* The opcodes with an arm in evaluate's match
Handled ==
    {0, 2, 3, 4, 5, 11, 12, 13, 14, 15, 16, 17, 26, 27, 32, 33, 34, 35, 36}
    \cup (40..62) \cup (65..80)
    \cup {82, 84, 86, 90, 99, 106, 107, 108, 109, 110, 112, 113, 114, 115, 116,
          118, 124, 126, 128, 130, 131, 132, 134, 136, 146, 161, 162, 167, 173,
          190, 192}

\* `_ => todo!("opcode {:02x?}", op)`: the thread panics
exec_todo(p) == Out("panic", stack, AdvanceTop(p), locals, memory, globals)

-----------------------------------------------------------------------------
(* The host: the sequence of execute_function invocations on one VmContext *)

MaxInvocations == 3

\* A value as 32-bit words (low word first), and back
Words(ty, v) == IF ty \in {I64, F64} THEN <<v.lo, v.hi>> ELSE <<v>>
Val(ty, w) == IF ty \in {I64, F64} THEN [hi |-> w[2], lo |-> w[1]] ELSE w[1]

\* TArgs::write_to on the Serializer: each argument's to_ne_bytes in order
args_mem(targs, vals) ==
    Flatten([i \in 1..Len(targs) |-> to_le_bytes(targs[i], Val(targs[i], vals[i]))])

Call(name, targs, vals, tres) ==
    [name |-> name, targs |-> targs, vals |-> vals, tres |-> tres]

\* The invocations the host may make: TArgs, the argument values and TResult
HostCalls ==
    { Call(n, <<I32>>, <<<<v>>>>, I32) : n \in {"id", "outer"}, v \in {1, 2} }
    \cup { Call("boom", <<I32>>, <<<<1>>>>, I32),
           Call("setg", <<I32>>, <<<<2>>>>, I32),
           Call("d64", <<I32>>, <<<<1>>>>, I32),
           Call("void", <<I32>>, <<<<1>>>>, Void),
           Call("void", <<I32>>, <<<<1>>>>, I32),
           Call("id", <<I64>>, <<<<1, 0>>>>, I32),
           Call("id", <<I32, I32>>, <<<<1>>, <<2>>>>, I32),
           Call("id", <<I32>>, <<<<1>>>>, I64),
           Call("dup", <<I32>>, <<<<1>>>>, I32),
           Call("dup", <<I64>>, <<<<1, 0>>>>, I32),
           Call("print", <<I32, I32>>, <<<<1>>, <<2>>>>, Void),
           Call("nope", <<I32>>, <<<<1>>>>, I32) }

\* Invocations of the functions touching linear memory, the host callbacks
\* and an opcode without a handler
MemCalls ==
    { Call("nop", <<I32>>, <<<<1>>>>, I32),
      Call("say", <<I32>>, <<<<2>>>>, I32),
      Call("say", <<I32>>, <<<<5>>>>, I32),
      Call("ld", <<I32>>, <<<<0>>>>, I32),
      Call("ld", <<I32>>, <<<<1>>>>, I32),
      Call("st", <<I32>>, <<<<0>>>>, I32),
      Call("st", <<I32>>, <<<<-1>>>>, I32),
      Call("id", <<I32>>, <<<<1>>>>, I32) }

NoCall == Call("", <<>>, <<>>, Void)

\* The host's sessions: every invocation on one VmContext is drawn from the
\* same one of these sets
HostSuites == {HostCalls, MemCalls}
SameSuite(c) ==
    \E suite \in HostSuites : c \in suite /\ (cur.call = NoCall \/ cur.call \in suite)

\* What execute_function handed back: Ok(value), Err(error), or nothing yet
NoResult  == [kind |-> "none", val |-> <<>>, err |-> ""]
OkResult(w) == [kind |-> "ok", val |-> w, err |-> ""]
ErrResult(e) == [kind |-> "err", val |-> <<>>, err |-> e]

\* The input of an invocation: the call and the memory and globals handed in
Input(c) == [call |-> c, memory |-> memory, globals |-> globals]

\* One finished invocation: what went in and what came out
LogEntry(inp, res, mem, glob) ==
    [inp |-> inp, res |-> res, memory |-> mem, globals |-> glob]

\* execute_function's checks before evaluate: "ok", an error or "panic"
validate(c) ==
    LET f == get_function_index_by_name(module, c.name) IN
    IF ~f.has THEN "FunctionNotFound"
    ELSE LET func == module.functions[f.idx + 1] IN
         IF ~func.has_body THEN "FunctionWithoutBody"
         ELSE LET sig == func.body.signature IN
              IF Len(sig.params) # Len(c.targs) THEN "InvalidSignature"
              ELSE IF \E i \in 1..Len(c.targs) : sig.params[i] # c.targs[i]
              THEN "InvalidSignature"
              ELSE IF Len(sig.results) > 1 THEN "panic"   \* todo!()
              ELSE IF sig.results = <<>> /\ c.tres # Void THEN "InvalidSignature"
              ELSE IF Len(sig.results) = 1 /\ sig.results[1] # c.tres
              THEN "InvalidSignature"
              ELSE "ok"

ProfileCount(op) == IF op \in DOMAIN profile THEN profile[op] ELSE 0

\* A counter that only records that op was dispatched at all
count_once(prof, op) == MapPut(prof, op, 1)

\* ctx.profile.executed_instr_count[op as usize] += 1
count_dispatch(prof, op) ==
    MapPut(prof, op, (IF op \in DOMAIN prof THEN prof[op] ELSE 0) + 1)

\* VmContext::reset_profile, between two invocations
ResetProfile ==
    /\ pc = "idle" /\ profile # EmptyMap
    /\ profile' = EmptyMap
    /\ trace' = [trace EXCEPT !.dispatched = EmptyBag]
    /\ UNCHANGED <<debug, module, stack, call_stack, locals, memory, globals,
                   pc, cur, result, log, ninv, scanVars, lastop>>

\* execute_function rejects the invocation before evaluate runs
InvokeRejected ==
    /\ pc = "idle" /\ ninv < MaxInvocations
    /\ \E c \in UNION HostSuites :
         /\ SameSuite(c)
         /\ validate(c) \notin {"ok", "panic"}
         /\ cur' = Input(c)
         /\ result' = ErrResult(validate(c))
         /\ log' = log \cup {LogEntry(Input(c), ErrResult(validate(c)), memory, globals)}
    /\ ninv' = ninv + 1
    /\ trace' = [locals_len |-> Len(locals), steps |-> 0, host |-> <<>>,
                  dispatched |-> trace.dispatched]
    /\ UNCHANGED <<debug, module, stack, call_stack, locals, profile, memory,
                   globals, pc, scanVars, lastop>>

\* execute_function reaches todo!() on a multi-value signature
InvokePanic ==
    /\ pc = "idle" /\ ninv < MaxInvocations
    /\ \E c \in UNION HostSuites :
         /\ SameSuite(c)
         /\ validate(c) = "panic"
         /\ cur' = Input(c)
    /\ pc' = "panicked"
    /\ result' = NoResult
    /\ ninv' = ninv + 1
    /\ trace' = [locals_len |-> Len(locals), steps |-> 0, host |-> <<>>,
                  dispatched |-> trace.dispatched]
    /\ UNCHANGED <<debug, module, stack, call_stack, locals, profile, memory,
                   globals, log, scanVars, lastop>>

\* execute_function accepts the invocation; evaluate sets up the first frame
StartCall(c) ==
    /\ validate(c) = "ok"
    /\ cur' = Input(c)
    /\ LET idx  == get_function_index_by_name(module, c.name).idx
           func == get_function_by_index(module, idx).body
       IN  /\ stack' = [stack EXCEPT !.data = <<>>]
           /\ locals' = copy_params_and_locals(locals, args_mem(c.targs, c.vals), func)
           /\ call_stack' = <<NewFrame(idx, 0)>>
    /\ pc' = "running"
    /\ result' = NoResult
    /\ trace' = [locals_len |-> Len(locals), steps |-> 0, host |-> <<>>,
                  dispatched |-> trace.dispatched]
    /\ UNCHANGED <<debug, module, profile, memory, globals, log, ninv,
                   scanVars, lastop>>

InvokeStart ==
    /\ pc = "idle" /\ ninv < MaxInvocations
    /\ \E c \in UNION HostSuites : SameSuite(c) /\ StartCall(c)

-----------------------------------------------------------------------------
(* interpreter.rs: evaluate's loop, one iteration per step *)

\* What an iteration that ran the handler of op leaves behind
Commit(op, out) ==
    /\ profile' = count_dispatch(profile, op)
    /\ stack' = out.stack
    /\ call_stack' = out.call_stack
    /\ locals' = out.locals
    /\ memory' = out.memory
    /\ globals' = out.globals
    /\ trace' = [trace EXCEPT !.steps = @ + 1, !.host = @ \o out.called,
                              !.dispatched = @ (+) SetToBag({op})]
    /\ IF out.st = "ok"
       THEN pc' = "running" /\ UNCHANGED <<result, log, ninv>>
       ELSE IF out.st = "panic"
       THEN pc' = "panicked" /\ UNCHANGED <<result, log, ninv>>
       ELSE /\ pc' = "idle"
            /\ result' = ErrResult(out.st)
            /\ log' = log \cup {LogEntry(cur, ErrResult(out.st), out.memory, out.globals)}
            /\ ninv' = ninv + 1
    /\ UNCHANGED <<debug, module, cur, scanVars, lastop>>

\* The loop read opcode op from the top frame
Fetched(op) ==
    /\ pc = "running" /\ call_stack # <<>>
    /\ Fetch.st = "ok" /\ Fetch.val = op

\* A handler's immediate and what it leaves behind are each computed once
OpUnreachable ==
    Fetched(0) /\ \E out \in {exec_unreachable(Fetch.pos)} : Commit(0, out)
OpEnd ==
    Fetched(11) /\ \E out \in {exec_end(Fetch.pos)} : Commit(11, out)
OpCall ==
    Fetched(16) /\ \E im \in {Imm} :
        \E out \in {exec_call(im)} : Commit(16, out)
OpDrop ==
    Fetched(26) /\ \E out \in {exec_drop(Fetch.pos)} : Commit(26, out)
OpLocalGet ==
    Fetched(32) /\ \E im \in {Imm} :
        \E out \in {exec_local_get(im)} : Commit(32, out)
OpGlobalSet ==
    Fetched(36) /\ \E im \in {Imm} :
        \E out \in {exec_global_set(im)} : Commit(36, out)
OpI32Const ==
    Fetched(65) /\ \E im \in {ImmSigned} :
        \E out \in {exec_i32_const(im)} : Commit(65, out)
OpI64Const ==
    Fetched(66) /\ \E im \in {Imm} :
        \E out \in {exec_i64_const(im)} : Commit(66, out)
FetchedIn(ops) ==
    pc = "running" /\ call_stack # <<>> /\ Fetch.st = "ok" /\ Fetch.val \in ops
OpUnsupported ==
    FetchedIn((0..254) \ Handled) /\ Commit(Fetch.val, exec_todo(Fetch.pos))
OpLoad  == FetchedIn(40..53) /\ Commit(Fetch.val, exec_load(Fetch.val, Imm, Imm2))
OpStore == FetchedIn(54..62) /\ Commit(Fetch.val, exec_store(Fetch.val, Imm, Imm2))

\* read_u8 hit the end of the function's code: the frame is popped and its
\* locals drained
FrameEnd ==
    /\ pc = "running" /\ call_stack # <<>>
    /\ Fetch.st = "EndOfStream"
    /\ call_stack' = SubSeq(call_stack, 1, Len(call_stack) - 1)
    /\ IF Top.locals_offset > Len(locals)
       THEN pc' = "panicked" /\ locals' = locals
       ELSE pc' = pc /\ locals' = Slice(locals, 0, Top.locals_offset)
    /\ UNCHANGED <<debug, module, stack, profile, memory, globals, cur, result,
                   log, ninv, trace, scanVars, lastop>>

\* The call stack is empty: evaluate returns Ok(()) and execute_function
\* pops TResult
Return ==
    /\ pc = "running" /\ call_stack = <<>>
    /\ LET r   == Operand_pop(stack, cur.call.tres)
           res == IF r.st = "ok" THEN OkResult(Words(cur.call.tres, r.val))
                  ELSE ErrResult(r.st)
       IN  /\ stack' = r.stack
           /\ result' = res
           /\ log' = log \cup {LogEntry(cur, res, memory, globals)}
    /\ pc' = "idle"
    /\ ninv' = ninv + 1
    /\ UNCHANGED <<debug, module, call_stack, locals, profile, memory, globals,
                   cur, trace, scanVars, lastop>>

\* The record of the latest primitive stack operation and of the one before
NoPrev == [op |-> "none", kind |-> I32, val |-> <<>>, before |-> NewStack]
NoOp == [op |-> "none", kind |-> I32, val |-> <<>>, st |-> "ok",
         before |-> NewStack, prev |-> NoPrev, n |-> 0]
StackOff == lastop = NoOp

VmOff ==
    /\ module = CoreModule /\ stack = NewStack /\ call_stack = <<>>
    /\ locals = <<>> /\ profile = EmptyMap /\ memory = <<0, 0, 0, 0>>
    /\ globals = <<0, 0, 0, 0>> /\ pc = "idle" /\ cur = Input(NoCall)
    /\ result = NoResult /\ log = {} /\ ninv = 0
    /\ trace = [locals_len |-> 0, steps |-> 0, host |-> <<>>, dispatched |-> EmptyBag]

\* A fresh VmContext (VmContext::new) in either build
Init ==
    /\ debug \in BOOLEAN
    /\ VmOff /\ ScanOff /\ StackOff

Next ==
    \/ InvokeRejected \/ InvokePanic \/ InvokeStart \/ ResetProfile
    \/ OpUnreachable \/ OpEnd \/ OpCall \/ OpDrop \/ OpLocalGet
    \/ OpGlobalSet \/ OpI32Const \/ OpI64Const \/ OpLoad \/ OpStore
    \/ OpUnsupported
    \/ FrameEnd \/ Return

Spec == Init /\ [][Next]_vars

-----------------------------------------------------------------------------
(* SpecScan: parse_code walking one function body of the code section *)

InitScan ==
    /\ debug = FALSE
    /\ VmOff /\ StackOff
    /\ rdata \in ScanInputs
    /\ rpos = Len(ScanPrefix) /\ marker = Len(ScanPrefix)
    /\ pstate = NewParserState /\ pstatus = "scanning"

SpecScan == InitScan /\ [][NextScan]_vars

\* The instruction boundaries of data from pos on, as evaluate's handlers
\* consume immediates
RECURSIVE Boundaries(_, _)
RECURSIVE BoundariesAfter(_, _, _)
BoundariesAfter(data, pos, nx) ==
    IF nx.st # "ok" THEN <<pos>> ELSE <<pos>> \o Boundaries(data, nx.pos)

Boundaries(data, pos) ==
    IF pos >= Len(data) THEN <<>>
    ELSE BoundariesAfter(data, pos, skip_imm(data, pos + 1, InterpImm(data[pos + 1])))

\* Structure of the instruction sequence B of data: the nesting an opcode
\* opens or closes, the function's final end, the terminator matching B[i]
OpAt(data, p) == data[p + 1]
Delta(op) == IF op \in {2, 3, 4} THEN 1 ELSE IF op = 11 THEN -1 ELSE 0
Balance(data, B, i, j) ==
    IF j < i THEN 0 ELSE SumSeq([k \in 1..(j - i + 1) |-> Delta(OpAt(data, B[i + k - 1]))])
Least(S) == IF S = {} THEN 0 ELSE CHOOSE x \in S : \A y \in S : x <= y
FuncEnd(data, B) ==
    Least({ j \in 1..Len(B) : OpAt(data, B[j]) = 11 /\ Balance(data, B, 1, j - 1) = 0 })
Terminators(op) == IF op = 4 THEN {5, 11} ELSE {11}
Match(data, B, i) ==
    Least({ j \in (i + 1)..Len(B) :
              /\ OpAt(data, B[j]) \in Terminators(OpAt(data, B[i]))
              /\ Balance(data, B, i + 1, j - 1) = 0 })

\* C7: for every body the pre-scan accepts, each block, loop, if and else
\* opcode at offset p has a jump_targets[p] entry whose value is the position
\* just past the structurally matching terminator (the else of an if that
\* has one, otherwise the end), under arbitrary nesting.
C7_JumpTargetsMatch ==
    pstatus = "accepted" =>
        LET B == Boundaries(rdata, marker)
            e == FuncEnd(rdata, B)
        IN  /\ e > 0
            /\ \A i \in 1..e :
                  OpAt(rdata, B[i]) \in {2, 3, 4, 5} =>
                    /\ B[i] \in DOMAIN pstate.jump_targets
                    /\ Match(rdata, B, i) > 0
                    /\ pstate.jump_targets[B[i]] = B[Match(rdata, B, i)] + 1 - marker

\* The same statement for the bodies in which the walker and the handlers
\* read the same immediates (no f32.store, i64.store, i64.store32)
NoUnknownStore ==
    \A i \in 1..Len(Boundaries(rdata, marker)) :
        OpAt(rdata, Boundaries(rdata, marker)[i]) \notin {56, 60, 62}

JumpTargetsMatchKnown == NoUnknownStore => C7_JumpTargetsMatch

-----------------------------------------------------------------------------
(* SpecStack: the primitive operations of one VmStack *)

MaxStackBytes == 12
MaxStackOps == 4

\* Values pushed, as words: bit patterns of i32 / f32 and of i64 / f64
Words32 == { <<-2147483647 - 1>>, <<305419896>> }
Words64 == { <<305419896, -2023406815>> }
WordsOf(ty) == IF ty \in {I64, F64} THEN Words64 ELSE Words32

Prev(l) == [op |-> l.op, kind |-> l.kind, val |-> l.val, before |-> l.before]

\* push_i32 / push_i64 / push_f32 / push_f64
StackPush ==
    /\ pc = "stack" /\ lastop.n < MaxStackOps
    /\ \E ty \in ValueKinds : \E w \in WordsOf(ty) :
         /\ Len(stack.data) + len_bytes(ty) <= MaxStackBytes
         /\ stack' = push_kind(stack, ty, Val(ty, w))
         /\ lastop' = [op |-> "push", kind |-> ty, val |-> w, st |-> "ok",
                        before |-> stack, prev |-> Prev(lastop), n |-> lastop.n + 1]
    /\ UNCHANGED <<debug, module, call_stack, locals, profile, memory, globals,
                   pc, cur, result, log, ninv, trace, scanVars>>

\* What pop_K, having come back as r, leaves
Popped(ty, r) ==
    /\ stack' = r.stack
    /\ lastop' = [op |-> "pop", kind |-> ty,
                   val |-> IF r.st = "ok" THEN Words(ty, r.val) ELSE <<>>,
                   st |-> r.st, before |-> stack, prev |-> Prev(lastop), n |-> lastop.n + 1]

\* pop_i32 / pop_i64 / pop_f32 / pop_f64
StackPop ==
    /\ pc = "stack" /\ lastop.n < MaxStackOps
    /\ \E ty \in ValueKinds : Popped(ty, pop_kind(stack, ty))
    /\ UNCHANGED <<debug, module, call_stack, locals, profile, memory, globals,
                   pc, cur, result, log, ninv, trace, scanVars>>

InitStack ==
    /\ debug \in BOOLEAN
    /\ module = CoreModule /\ stack = NewStack /\ call_stack = <<>>
    /\ locals = <<>> /\ profile = EmptyMap /\ memory = <<0, 0, 0, 0>>
    /\ globals = <<0, 0, 0, 0>> /\ pc = "stack" /\ cur = Input(NoCall)
    /\ result = NoResult /\ log = {} /\ ninv = 0
    /\ trace = [locals_len |-> 0, steps |-> 0, host |-> <<>>, dispatched |-> EmptyBag]
    /\ ScanOff /\ StackOff

NextStack == StackPush \/ StackPop

SpecStack == InitStack /\ [][NextStack]_vars

-----------------------------------------------------------------------------
(* Properties of the interpreter (Spec) *)

\* C1: execute_function is deterministic: two invocations with identical
\* module, function name, arguments, memory, globals and imports return the
\* same result and leave memory and globals identical, whatever invocations
\* (trapped ones included) ran earlier on the same VmContext.
C1_Deterministic ==
    \A e1 \in log : \A e2 \in log :
        e1.inp = e2.inp =>
            /\ e1.res = e2.res
            /\ e1.memory = e2.memory
            /\ e1.globals = e2.globals

\* params_bytes + non_param_locals_bytes of the function of frame f
FrameBytes(f) ==
    get_function_by_index(module, f.func_idx).body.params_len_in_bytes
    + get_function_by_index(module, f.func_idx).body.non_param_locals_len_in_bytes

FrameBytesBelow(i) == SumSeq([k \in 1..(i - 1) |-> FrameBytes(call_stack[k])])

\* C2: at the start of every interpreter iteration the locals arena's length
\* is the sum over the live frames of params_bytes + non_param_locals_bytes,
\* and each frame's locals_offset is that sum over the frames below it; also
\* in an invocation that follows one that trapped.
C2_LocalsArena ==
    pc = "running" =>
        /\ Len(locals) = FrameBytesBelow(Len(call_stack) + 1)
        /\ \A i \in 1..Len(call_stack) :
              call_stack[i].locals_offset = FrameBytesBelow(i)

\* C3: when an invocation terminates normally (evaluate returns Ok), the
\* call stack is empty and the locals arena is back at its pre-invocation
\* length.
C3_LocalsRestored ==
    (pc = "running" /\ call_stack = <<>>) => Len(locals) = trace.locals_len

\* C4: executing unreachable (0x00) in any frame at any call depth ends the
\* invocation at once with the Unreachable error, and no instruction of any
\* frame is dispatched after it.
C4_UnreachableEnds ==
    [][ /\ Fetched(0) => (pc' = "idle" /\ result' = ErrResult("Unreachable"))
        /\ pc = "idle" => profile' \in {profile, EmptyMap} ]_vars

C4_TrapInCallee ==
    /\ pc = "idle" /\ result = ErrResult("Unreachable")
    /\ Len(call_stack) = 2
    /\ ProfileCount(0) = 1

\* What the contract prescribes for the call c before anything runs
Prescribed(c) ==
    LET f == get_function_index_by_name(module, c.name) IN
    IF ~f.has THEN "FunctionNotFound"
    ELSE IF ~module.functions[f.idx + 1].has_body THEN "none"
    ELSE LET sig == module.functions[f.idx + 1].body.signature IN
         IF sig.params # c.targs THEN "InvalidSignature"
         ELSE IF sig.results # (IF c.tres = Void THEN <<>> ELSE <<c.tres>>)
         THEN "InvalidSignature"
         ELSE "none"

\* C5: execute_function returns FunctionNotFound for an unknown name and
\* InvalidSignature when the arity or kinds of the arguments or the requested
\* result kind differ from the signature; the operand stack, call stack,
\* locals arena, memory and globals are then what they were before.
C5_Rejected ==
    [][ (pc = "idle" /\ Prescribed(cur'.call) # "none") =>
            /\ pc' = "idle"
            /\ result' = ErrResult(Prescribed(cur'.call))
            /\ UNCHANGED <<stack, call_stack, locals, memory, globals>> ]_vars

\* C6: for a function without results whose body ends normally with an
\* empty operand stack, execute_function returns success.
C6_VoidSucceeds ==
    [][ ( /\ pc = "running" /\ call_stack = <<>> /\ stack.data = <<>>
          /\ cur.call.tres = Void )
        => result'.kind = "ok" ]_vars

\* C8: in a debug build, at entry and exit of every opcode handler the sizes
\* of the recorded kind tags add up to the byte length of the operand stack,
\* across drop, call parameter transfer, failing pops and the stack clear at
\* the start of an invocation.
C8_TagsMatchBytes ==
    (debug /\ pc = "running") => types_len(stack.types) = Len(stack.data)

-----------------------------------------------------------------------------
(* Properties of the operand stack (SpecStack) *)

\* C9: for each kind K and any prior stack contents, push_K(v) immediately
\* followed by pop_K() returns v and leaves the stack's bytes as they were
\* before the push.
C9_PushPop ==
    ( /\ lastop.op = "pop" /\ lastop.prev.op = "push"
      /\ lastop.prev.kind = lastop.kind )
    => /\ lastop.st = "ok"
       /\ lastop.val = lastop.prev.val
       /\ stack.data = lastop.prev.before.data

C9_RoundTripOnTop ==
    /\ lastop.op = "pop" /\ lastop.prev.op = "push"
    /\ lastop.kind = I64 /\ lastop.prev.kind = I64
    /\ lastop.val = <<305419896, -2023406815>>
    /\ Len(lastop.prev.before.data) = 4
    /\ stack.data = lastop.prev.before.data

\* C10: pop_K on a stack holding fewer than K's bytes fails with
\* StackTooSmall and leaves the byte buffer and, in a debug build, the kind
\* tags unchanged.
C10_ShortPop ==
    (lastop.op = "pop" /\ Len(lastop.before.data) < len_bytes(lastop.kind))
    => /\ lastop.st = "StackTooSmall"
       /\ stack.data = lastop.before.data
       /\ stack.types = lastop.before.types

-----------------------------------------------------------------------------
(* Loads and stores *)

\* The effective address of the access about to be dispatched: the fixed
\* offset plus the i32 index on the stack (under the value, for a store)
AccessN == IF Fetch.val \in 40..53 THEN LoadN(Fetch.val) ELSE StoreN(Fetch.val)
AccessIndex ==
    IF Fetch.val \in 40..53 THEN pop_i32(stack)
    ELSE pop_i32(pop_kind(stack, StoreKind(Fetch.val)).stack)
AccessEa == Imm2.val + AccessIndex.val
OutsideAccess ==
    /\ pc = "running" /\ call_stack # <<>> /\ Fetch.st = "ok"
    /\ Fetch.val \in 40..62
    /\ Imm.st = "ok" /\ Imm2.st = "ok" /\ AccessIndex.st = "ok"
    /\ (AccessEa < 0 \/ AccessEa + AccessN > Len(memory))

\* C11: a load or store whose byte range [ea, ea+N) is not entirely inside
\* linear memory ends the invocation with a memory-access error returned to
\* the caller as an error value, and linear memory is left unchanged.
C11_AccessTrap ==
    [][OutsideAccess => /\ pc' = "idle" /\ result'.kind = "err"
                        /\ memory' = memory]_vars

-----------------------------------------------------------------------------
(* Opcodes without a handler *)

UnhandledFetched ==
    /\ pc = "running" /\ call_stack # <<>>
    /\ Fetch.st = "ok" /\ Fetch.val \notin Handled

\* C12: when the interpreter reads an opcode byte for which it has no
\* handler, the invocation ends and execute_function returns an
\* unsupported-opcode error value to the caller; the host is not aborted.
C12_UnsupportedReturned ==
    [][UnhandledFetched => pc' = "idle" /\ result'.kind = "err"]_vars

-----------------------------------------------------------------------------
(* Calls of imported functions *)

ImportCallFetched ==
    /\ pc = "running" /\ call_stack # <<>>
    /\ Fetch.st = "ok" /\ Fetch.val = 16 /\ Imm.st = "ok"
    /\ Imm.val < Len(module.functions)
    /\ ~module.functions[Imm.val + 1].has_body

\* C13: `call idx` of a function without a body invokes the host callback
\* imports[idx] exactly once, handing it the operand stack and the linear
\* memory; no frame is pushed, the locals arena is unchanged, and the
\* interpreter resumes at the instruction right after the call.
C13_ImportCall ==
    [][ImportCallFetched =>
         /\ trace'.host = Append(trace.host,
                [idx |-> Imm.val, stack |-> stack, memory |-> memory])
         /\ Len(call_stack') = Len(call_stack)
         /\ locals' = locals
         /\ pc' \in {"running", "panicked"}     \* panicked: inside the callback
         /\ pc' = "running" => call_stack'[Len(call_stack')].pos = Imm.pos]_vars

C13_CallbackReturned ==
    /\ pc = "running" /\ Len(trace.host) = 1 /\ call_stack # <<>>
    /\ trace.host[1].idx = 0 /\ Len(trace.host[1].stack.data) = 8
    /\ stack.data = <<>> /\ Top.pos = 6

-----------------------------------------------------------------------------
(* lib.rs: parse, the loader.  In SpecLoad the reader is rdata / rpos, the  *)
(* module being built is module, parse's local `signatures` is pstate,     *)
(* pstatus is where parse stands and trace keeps what the sections held.   *)

\* Reader::read_slice
read_slice(data, pos, n) ==
    IF pos + n <= Len(data)
    THEN [st |-> "ok", val |-> Slice(data, pos, pos + n), pos |-> pos + n]
    ELSE [st |-> "EndOfStream", val |-> <<>>, pos |-> pos]

\* Reader::read_str: the length, then the slice
str_of(data, len) ==
    IF len.st # "ok" THEN [st |-> len.st, val |-> <<>>, pos |-> len.pos]
    ELSE read_slice(data, len.pos, len.val)
read_str(data, pos) == str_of(data, read_usize(data, pos))

\* Reader::expect_bytes: [st, pos]
expect_bytes(data, pos, expected) ==
    IF pos + Len(expected) > Len(data) THEN [st |-> "NotEnoughBytes", pos |-> pos]
    ELSE IF Slice(data, pos, pos + Len(expected)) # expected
    THEN [st |-> "UnexpectedBytes", pos |-> pos]
    ELSE [st |-> "ok", pos |-> pos + Len(expected)]

\* impl Item for SectionKind
SectionKinds == {0, 1, 2, 3, 4, 5, 6, 7, 9, 10, 11}
SectionKind_of(r) ==
    IF r.st = "ok" /\ r.val \notin SectionKinds
    THEN [st |-> "InvalidValue", val |-> r.val, pos |-> r.pos]
    ELSE r
read_SectionKind(data, pos) == SectionKind_of(read_u8(data, pos))

\* n TypeKinds in a row: [st, val, pos]
RECURSIVE read_kinds(_, _, _, _)
RECURSIVE read_kinds_after(_, _, _, _)
read_kinds_after(data, r, n, acc) ==
    IF r.st # "ok" THEN [st |-> r.st, val |-> acc, pos |-> r.pos]
    ELSE read_kinds(data, r.pos, n - 1, Append(acc, r.val))
read_kinds(data, pos, n, acc) ==
    IF n = 0 THEN [st |-> "ok", val |-> acc, pos |-> pos]
    ELSE read_kinds_after(data, read_TypeKind(data, pos), n, acc)
kinds_counted(data, num) ==
    IF num.st # "ok" THEN [st |-> num.st, val |-> <<>>, pos |-> num.pos]
    ELSE read_kinds(data, num.pos, num.val, <<>>)
read_kind_vec(data, pos) == kinds_counted(data, read_usize(data, pos))

\* impl Item for FuncSignature
NoSignature == [params |-> <<>>, results |-> <<>>]
signature_of(params, results) ==
    [st |-> results.st, pos |-> results.pos,
     val |-> IF results.st = "ok"
             THEN [params |-> params.val, results |-> results.val]
             ELSE NoSignature]
signature_after(data, params) ==
    IF params.st # "ok" THEN [st |-> params.st, pos |-> params.pos, val |-> NoSignature]
    ELSE signature_of(params, read_kind_vec(data, params.pos))
read_FuncSignature(data, pos) == signature_after(data, read_kind_vec(data, pos))

\* Func as the import, function and export sections leave it: no body yet
NewFunc(name, sig_index) ==
    [name |-> name, has_body |-> FALSE, body |-> NoBody, signature |-> sig_index]

\* What one arm of parse's match leaves: st is "ok" (next section), "break",
\* an error name (parse returns Err) or "panic"; m is the module so far,
\* sigs the signatures, ex the function exports the arm read
Arm(st, pos, m, sigs, ex) ==
    [st |-> st, pos |-> pos, module |-> m, signatures |-> sigs, exports |-> ex]

\* SectionKind::Custom: the name, then `break`
custom_named(name, m, sigs) ==
    IF name.st # "ok" THEN Arm(name.st, name.pos, m, sigs, <<>>)
    ELSE Arm("break", name.pos, m, sigs, <<>>)
arm_custom(data, pos, m, sigs) == custom_named(read_str(data, pos), m, sigs)

\* SectionKind::Type
RECURSIVE type_entries(_, _, _, _, _)
type_signature(data, sig, n, m, sigs) ==
    IF sig.st # "ok" THEN Arm(sig.st, sig.pos, m, sigs, <<>>)
    ELSE type_entries(data, sig.pos, n - 1, m, Append(sigs, sig.val))
type_kind(data, kind, n, m, sigs) ==
    IF kind.st # "ok" THEN Arm(kind.st, kind.pos, m, sigs, <<>>)
    ELSE IF kind.val # Func THEN Arm("panic", kind.pos, m, sigs, <<>>)   \* todo!()
    ELSE type_signature(data, read_FuncSignature(data, kind.pos), n, m, sigs)
type_entries(data, pos, n, m, sigs) ==
    IF n = 0 THEN Arm("ok", pos, m, sigs, <<>>)
    ELSE type_kind(data, read_TypeKind(data, pos), n, m, sigs)
type_counted(data, num, m, sigs) ==
    IF num.st # "ok" THEN Arm(num.st, num.pos, m, sigs, <<>>)
    ELSE type_entries(data, num.pos, num.val, m, sigs)
arm_type(data, pos, m, sigs) == type_counted(data, read_usize(data, pos), m, sigs)

\* SectionKind::Function; writeln! indexes signatures[sig_index]
RECURSIVE function_entries(_, _, _, _, _)
function_entry(data, idx, n, m, sigs) ==
    IF idx.st # "ok" THEN Arm(idx.st, idx.pos, m, sigs, <<>>)
    ELSE IF idx.val >= Len(sigs) THEN Arm("panic", idx.pos, m, sigs, <<>>)
    ELSE function_entries(data, idx.pos, n - 1,
            [m EXCEPT !.functions = Append(@, NewFunc({}, idx.val))], sigs)
function_entries(data, pos, n, m, sigs) ==
    IF n = 0 THEN Arm("ok", pos, m, sigs, <<>>)
    ELSE function_entry(data, read_usize(data, pos), n, m, sigs)
function_counted(data, num, m, sigs) ==
    IF num.st # "ok" THEN Arm(num.st, num.pos, m, sigs, <<>>)
    ELSE function_entries(data, num.pos, num.val, m, sigs)
arm_function(data, pos, m, sigs) ==
    function_counted(data, read_usize(data, pos), m, sigs)

\* SectionKind::Table: the kind, limits_flags, limits_initial and limits_max
\* of each table, the last read whatever the flags say
RECURSIVE table_entries(_, _, _, _, _)
table_max(data, kind, flags, initial, max, n, m, sigs) ==
    IF max.st # "ok" THEN Arm(max.st, max.pos, m, sigs, <<>>)
    ELSE table_entries(data, max.pos, n - 1,
            [m EXCEPT !.tables = Append(@, [kind |-> kind.val,
                                            limits_flags |-> flags.val,
                                            limits_initial |-> initial.val,
                                            limits_max |-> max.val])], sigs)
table_initial(data, kind, flags, initial, n, m, sigs) ==
    IF initial.st # "ok" THEN Arm(initial.st, initial.pos, m, sigs, <<>>)
    ELSE table_max(data, kind, flags, initial, read_u8(data, initial.pos), n, m, sigs)
table_flags(data, kind, flags, n, m, sigs) ==
    IF flags.st # "ok" THEN Arm(flags.st, flags.pos, m, sigs, <<>>)
    ELSE table_initial(data, kind, flags, read_u8(data, flags.pos), n, m, sigs)
table_kind(data, kind, n, m, sigs) ==
    IF kind.st # "ok" THEN Arm(kind.st, kind.pos, m, sigs, <<>>)
    ELSE table_flags(data, kind, read_u8(data, kind.pos), n, m, sigs)
table_entries(data, pos, n, m, sigs) ==
    IF n = 0 THEN Arm("ok", pos, m, sigs, <<>>)
    ELSE table_kind(data, read_TypeKind(data, pos), n, m, sigs)
table_counted(data, num, m, sigs) ==
    IF num.st # "ok" THEN Arm(num.st, num.pos, m, sigs, <<>>)
    ELSE table_entries(data, num.pos, num.val, m, sigs)
arm_table(data, pos, m, sigs) == table_counted(data, read_usize(data, pos), m, sigs)

\* SectionKind::Memory: _limits_flags and _limits_initial of each memory
RECURSIVE memory_entries(_, _, _, _, _)
memory_initial(data, initial, n, m, sigs) ==
    IF initial.st # "ok" THEN Arm(initial.st, initial.pos, m, sigs, <<>>)
    ELSE memory_entries(data, initial.pos, n - 1, m, sigs)
memory_flags(data, flags, n, m, sigs) ==
    IF flags.st # "ok" THEN Arm(flags.st, flags.pos, m, sigs, <<>>)
    ELSE memory_initial(data, read_u8(data, flags.pos), n, m, sigs)
memory_entries(data, pos, n, m, sigs) ==
    IF n = 0 THEN Arm("ok", pos, m, sigs, <<>>)
    ELSE memory_flags(data, read_u8(data, pos), n, m, sigs)
memory_counted(data, num, m, sigs) ==
    IF num.st # "ok" THEN Arm(num.st, num.pos, m, sigs, <<>>)
    ELSE memory_entries(data, num.pos, num.val, m, sigs)
arm_memory(data, pos, m, sigs) == memory_counted(data, read_usize(data, pos), m, sigs)

\* SectionKind::Export: functions[export_func_idx].name = Some(name)
RECURSIVE export_entries(_, _, _, _, _, _)
export_index(data, name, kind, idx, n, m, sigs, ex) ==
    IF idx.st # "ok" THEN Arm(idx.st, idx.pos, m, sigs, ex)
    ELSE IF kind.val # 0 THEN export_entries(data, idx.pos, n - 1, m, sigs, ex)
    ELSE IF idx.val >= Len(m.functions) THEN Arm("panic", idx.pos, m, sigs, ex)
    ELSE export_entries(data, idx.pos, n - 1,
            [m EXCEPT !.functions[idx.val + 1].name = {name.val}], sigs,
            Append(ex, [name |-> name.val, index |-> idx.val]))
export_kind(data, name, kind, n, m, sigs, ex) ==
    IF kind.st # "ok" THEN Arm(kind.st, kind.pos, m, sigs, ex)
    ELSE export_index(data, name, kind, read_usize(data, kind.pos), n, m, sigs, ex)
export_name(data, name, n, m, sigs, ex) ==
    IF name.st # "ok" THEN Arm(name.st, name.pos, m, sigs, ex)
    ELSE export_kind(data, name, read_u8(data, name.pos), n, m, sigs, ex)
export_entries(data, pos, n, m, sigs, ex) ==
    IF n = 0 THEN Arm("ok", pos, m, sigs, ex)
    ELSE export_name(data, read_str(data, pos), n, m, sigs, ex)
export_counted(data, num, m, sigs) ==
    IF num.st # "ok" THEN Arm(num.st, num.pos, m, sigs, <<>>)
    ELSE export_entries(data, num.pos, num.val, m, sigs, <<>>)
arm_export(data, pos, m, sigs) == export_counted(data, read_usize(data, pos), m, sigs)

\* SectionKind::Data: flags, the offset expression, the payload
RECURSIVE data_entries(_, _, _, _, _)
data_payload(data, flags, code, payload, n, m, sigs) ==
    IF payload.st # "ok" THEN Arm(payload.st, payload.pos, m, sigs, <<>>)
    ELSE data_entries(data, payload.pos, n - 1,
            [m EXCEPT !.data_segments =
                Append(@, [flags |-> flags.val, offset |-> code.code, data |-> payload.val])],
            sigs)
data_code(data, flags, code, n, m, sigs) ==
    IF code.st # "ok" THEN Arm(code.st, code.pos, m, sigs, <<>>)
    ELSE data_payload(data, flags, code, read_str(data, code.pos), n, m, sigs)
data_flags(data, flags, n, m, sigs) ==
    IF flags.st # "ok" THEN Arm(flags.st, flags.pos, m, sigs, <<>>)
    ELSE data_code(data, flags, parse_code(data, flags.pos), n, m, sigs)
data_entries(data, pos, n, m, sigs) ==
    IF n = 0 THEN Arm("ok", pos, m, sigs, <<>>)
    ELSE data_flags(data, read_u8(data, pos), n, m, sigs)
data_counted(data, num, m, sigs) ==
    IF num.st # "ok" THEN Arm(num.st, num.pos, m, sigs, <<>>)
    ELSE data_entries(data, num.pos, num.val, m, sigs)
arm_data(data, pos, m, sigs) == data_counted(data, read_usize(data, pos), m, sigs)

\* The arm of `match section_type`
arm_of(kind, data, pos, m, sigs) ==
    CASE kind = 0  -> arm_custom(data, pos, m, sigs)
      [] kind = 1  -> arm_type(data, pos, m, sigs)
      [] kind = 3  -> arm_function(data, pos, m, sigs)
      [] kind = 4  -> arm_table(data, pos, m, sigs)
      [] kind = 5  -> arm_memory(data, pos, m, sigs)
      [] kind = 7  -> arm_export(data, pos, m, sigs)
      [] kind = 11 -> arm_data(data, pos, m, sigs)

\* One iteration of `while let Ok(section_type) = ..`, the section's size
\* having been read as size
section_sized(kind, size, data, m, sigs) ==
    IF size.st # "ok" THEN Arm(size.st, size.pos, m, sigs, <<>>)
    ELSE arm_of(kind, data, size.pos, m, sigs)

\* execute_initializer: the kind (Void for None) and, for an i32, the value
\* of the last constant before `end`: [st, kind, val]
RECURSIVE execute_initializer(_, _, _, _)
initializer_const(code, kind, lit, lo, hi) ==
    IF lit.st # "ok" THEN [st |-> lit.st, kind |-> Void, val |-> 0]
    ELSE IF lit.val < lo \/ lit.val > hi
    THEN [st |-> "panic", kind |-> Void, val |-> 0]      \* try_from(..).unwrap()
    ELSE execute_initializer(code, lit.pos, kind, lit.val)
initializer_float(code, kind, bytes) ==
    IF bytes.st # "ok" THEN [st |-> bytes.st, kind |-> Void, val |-> 0]
    ELSE execute_initializer(code, bytes.pos, kind, 0)
initializer_op(code, op, kind, val) ==
    IF op.st = "EndOfStream" THEN [st |-> "ok", kind |-> kind, val |-> val]
    ELSE IF op.st # "ok" THEN [st |-> op.st, kind |-> kind, val |-> val]
    ELSE CASE op.val = 11 -> [st |-> "ok", kind |-> kind, val |-> val]
           [] op.val = 65 -> initializer_const(code, I32, read_isize(code, op.pos),
                                               -2147483647 - 1, 2147483647)
           [] op.val = 66 -> initializer_const(code, I64, read_isize(code, op.pos),
                                               -2147483647 - 1, 2147483647)
           [] op.val = 67 -> initializer_float(code, F32, read_bytes(code, op.pos, 4))
           [] op.val = 68 -> initializer_float(code, F64, read_bytes(code, op.pos, 8))
           [] OTHER       -> [st |-> "panic", kind |-> kind, val |-> val]   \* todo!()
execute_initializer(code, pos, kind, val) ==
    initializer_op(code, read_u8(code, pos), kind, val)

\* memory[offset..][..data.len()].copy_from_slice(data), where it fits
copy_from_start(mem, offset, bytes) ==
    bytes \o Slice(mem, Len(bytes), Len(mem))
copy_from_slice(mem, offset, bytes) ==
    Slice(mem, 0, offset) \o bytes \o Slice(mem, offset + Len(bytes), Len(mem))

\* init_memory: the segments from the i-th on, in order
RECURSIVE init_segments(_, _, _)
segment_at(mem, segs, i, off) ==
    IF off.st # "ok" THEN [st |-> off.st, memory |-> mem]
    ELSE IF off.kind # I32 \/ off.val < 0 THEN [st |-> "panic", memory |-> mem]
    ELSE IF off.val + Len(segs[i].data) > Len(mem) THEN [st |-> "panic", memory |-> mem]
    ELSE init_segments(copy_from_slice(mem, off.val, segs[i].data), segs, i + 1)
init_segments(mem, segs, i) ==
    IF i > Len(segs) THEN [st |-> "ok", memory |-> mem]
    ELSE segment_at(mem, segs, i, execute_initializer(segs[i].offset, 0, Void, 0))
init_memory(mem, m) == init_segments(mem, m.data_segments, 1)

-----------------------------------------------------------------------------
(* SpecLoad: parse over a module's bytes, then init_memory *)

Header       == <<0, 97, 115, 109, 1, 0, 0, 0>>        \* "\0asm", version 1
SecCustom    == <<0, 3, 1, 110, 0>>                    \* custom "n", one byte
SecType      == <<1, 6, 1, 96, 1, 127, 1, 127>>        \* (i32) -> i32
SecFunction  == <<3, 3, 2, 0, 0>>                      \* two functions of type 0
SecTable     == <<4, 5, 1, 112, 1, 1, 2>>              \* one funcref table, 1..2
SecTableMin  == <<4, 4, 1, 112, 0, 1>>                 \* one funcref table, min 1
SecMemory    == <<5, 3, 1, 0, 1>>                      \* one memory, min 1
SecMemoryMax == <<5, 4, 1, 1, 1, 16>>                  \* one memory, 1..16 pages
SecExportOne   == <<7, 5, 1, 1, 97, 0, 0>>                   \* "a" -> 0
SecExportTwo   == <<7, 9, 2, 1, 97, 0, 0, 1, 98, 0, 1>>      \* "a" -> 0, "b" -> 1
SecExportAlias == <<7, 9, 2, 1, 97, 0, 0, 1, 98, 0, 0>>      \* "a" -> 0, "b" -> 0
SecStart     == <<8, 1, 0>>                            \* start section, kind 8
\* data segments: (i32.const off; end) and the payload
SecDataOne   == <<11, 7, 1, 0, 65, 1, 11, 1, 170>>                 \* [1] = AA
SecDataTwo   == <<11, 14, 2, 0, 65, 0, 11, 2, 1, 2, 0, 65, 1, 11, 1, 3>>
SecDataOut   == <<11, 8, 1, 0, 65, 3, 11, 2, 1, 2>>                \* [3..5): too far

LoadInputs ==
    { Header \o front \o SecType \o SecFunction \o mid \o exports \o gap \o tail :
        front \in {<<>>, SecCustom},
        mid \in {<<>>, SecMemory, SecMemoryMax, SecTable, SecTableMin},
        exports \in {SecExportOne, SecExportTwo, SecExportAlias},
        gap \in {<<>>, SecStart, SecCustom},
        tail \in {<<>>, SecDataOne, SecDataTwo, SecDataOut} }
    \cup { <<0, 97, 115>>, Header \o <<1>> }

\* The memory the host hands to init_memory
HostMemory == <<9, 9, 9, 9>>

\* parse's locals before the first section
NewModule ==
    [functions |-> <<>>, globals |-> <<>>, globals_offsets |-> <<>>,
     data_segments |-> <<>>, tables |-> <<>>]

InitLoad ==
    /\ debug = FALSE
    /\ module = NewModule /\ stack = NewStack /\ call_stack = <<>>
    /\ locals = <<>> /\ profile = EmptyMap /\ memory = HostMemory
    /\ globals = <<>> /\ pc = "load" /\ cur = Input(NoCall)
    /\ result = NoResult /\ log = {} /\ ninv = 0
    /\ trace = [sections |-> <<>>, exports |-> <<>>]
    /\ rdata \in LoadInputs /\ rpos = 0 /\ marker = 0
    /\ pstate = <<>> /\ pstatus = "header"
    /\ StackOff

\* reader.expect_bytes(b"\x00asm")?; reader.read_u32()?
version_read(r) == [st |-> r.st, pos |-> r.pos]
header_after(data, magic) ==
    IF magic.st # "ok" THEN magic ELSE version_read(read_bytes(data, magic.pos, 4))
read_header(data) == header_after(data, expect_bytes(data, 0, <<0, 97, 115, 109>>))

LoadHeader ==
    /\ pc = "load" /\ pstatus = "header"
    /\ rpos' = read_header(rdata).pos
    /\ pstatus' = IF read_header(rdata).st = "ok" THEN "sections" ELSE "error"
    /\ UNCHANGED <<vmVars, rdata, pstate, marker, lastop>>

\* Where parse stands after an arm that came back with st
StatusOf(st) ==
    CASE st = "ok"    -> "sections"
      [] st = "break" -> "loaded"       \* the loop is left: Ok(WasmModule)
      [] st = "panic" -> "panicked"
      [] OTHER        -> "error"

\* One iteration of the section loop that came back as r
LoadApply(r) ==
    /\ rpos' = r.pos
    /\ module' = r.module
    /\ pstate' = r.signatures
    /\ pstatus' = StatusOf(r.st)
    /\ trace' = [sections |-> IF r.st = "ok" THEN Append(trace.sections, rpos)
                              ELSE trace.sections,
                  exports |-> trace.exports \o r.exports]
    /\ UNCHANGED <<debug, stack, call_stack, locals, profile, memory, globals,
                   pc, cur, result, log, ninv, rdata, marker, lastop>>

LoadSection(kind) ==
    /\ pc = "load" /\ pstatus = "sections"
    /\ read_SectionKind(rdata, rpos).st = "ok"
    /\ read_SectionKind(rdata, rpos).val = kind
    /\ LoadApply(section_sized(kind, read_usize(rdata, rpos + 1), rdata, module, pstate))

LoadCustom   == LoadSection(0)
LoadType     == LoadSection(1)
LoadFunction == LoadSection(3)
LoadTable    == LoadSection(4)
LoadMemory   == LoadSection(5)
LoadExport   == LoadSection(7)
LoadData     == LoadSection(11)

\* reader.read::<SectionKind>() is not Ok: the loop ends, Ok(WasmModule)
LoadStop ==
    /\ pc = "load" /\ pstatus = "sections"
    /\ read_SectionKind(rdata, rpos).st # "ok"
    /\ pstatus' = "loaded"
    /\ UNCHANGED <<vmVars, rdata, rpos, pstate, marker, lastop>>

\* The host calls init_memory(&mut mem, &module) on the loaded module
InitMemory ==
    /\ pc = "load" /\ pstatus = "loaded"
    /\ memory' = init_memory(memory, module).memory
    /\ pstatus' = IF init_memory(memory, module).st = "ok" THEN "inited"
                  ELSE StatusOf(init_memory(memory, module).st)
    /\ UNCHANGED <<debug, module, stack, call_stack, locals, profile, globals,
                   pc, cur, result, log, ninv, trace, rdata, rpos, pstate,
                   marker, lastop>>

NextLoad ==
    \/ LoadHeader \/ LoadCustom \/ LoadType \/ LoadFunction \/ LoadTable
    \/ LoadMemory
    \/ LoadExport \/ LoadData \/ LoadStop \/ InitMemory

SpecLoad == InitLoad /\ [][NextLoad]_vars

\* The sections of data by their declared lengths, from pos on
RECURSIVE Sections(_, _)
SectionsAfter(data, pos, size) ==
    IF size.st # "ok" \/ size.pos + size.val > Len(data) THEN <<>>
    ELSE <<[kind |-> data[pos + 1], start |-> pos, end |-> size.pos + size.val]>>
         \o Sections(data, size.pos + size.val)
Sections(data, pos) ==
    IF pos >= Len(data) THEN <<>>
    ELSE SectionsAfter(data, pos, read_usize(data, pos + 1))

Returned == pc = "load" /\ pstatus \in {"loaded", "inited"}

\* The sections of the stream and the starts of those parse processed
Stream == Sections(rdata, Len(Header))
Processed == { trace.sections[k] : k \in 1..Len(trace.sections) }

\* Every recognized section after one whose kind is in kinds is processed,
\* in the streams holding no section of a kind in barred up to there
FollowersProcessed(kinds, barred) ==
    \A i \in 1..Len(Stream) : \A j \in 1..Len(Stream) :
        (/\ i < j
         /\ Stream[i].kind \in kinds
         /\ Stream[j].kind \in SectionKinds \ {0}
         /\ \A h \in 1..j : Stream[h].kind \notin barred)
        => Stream[j].start \in Processed

\* C14: after parse, every function export entry (name, index) of the export
\* section resolves: get_function_index_by_name(name) returns index, also
\* when one function is exported under several names.
C14_ExportsResolve ==
    Returned =>
        \A k \in 1..Len(trace.exports) :
            get_function_index_by_name(module, trace.exports[k].name)
                = [has |-> TRUE, idx |-> trace.exports[k].index]

\* C15: a section whose kind byte is not a recognized kind is skipped by its
\* declared length or makes parse return an error; parse does not return a
\* loaded module from which the sections that follow are missing.
C15_UnknownKind ==
    Returned => FollowersProcessed((0..255) \ SectionKinds, {0})

\* C16: a custom section (kind 0) does not end loading: every section that
\* follows it in the byte stream is still processed into the returned module.
C16_CustomContinues ==
    Returned => FollowersProcessed({0}, (0..255) \ SectionKinds)

\* The byte init_memory should leave at position k (0-based): the payload
\* byte of the last segment covering k, the host's byte where none does
SegmentOffset(seg) == read_isize(seg.offset, 1).val
Covering(m, k) ==
    { i \in 1..Len(m.data_segments) :
        /\ SegmentOffset(m.data_segments[i]) <= k
        /\ k < SegmentOffset(m.data_segments[i]) + Len(m.data_segments[i].data) }
LastOf(S) == CHOOSE i \in S : \A j \in S : j <= i
ExpectedByte(m, k) ==
    IF Covering(m, k) = {} THEN HostMemory[k + 1]
    ELSE m.data_segments[LastOf(Covering(m, k))]
            .data[k - SegmentOffset(m.data_segments[LastOf(Covering(m, k))]) + 1]

\* C17: init_memory writes each data segment's payload at the offset its
\* constant expression gives, in order, and leaves every other byte as the
\* host handed it.
C17_InitMemory ==
    (pc = "load" /\ pstatus = "inited") =>
        memory = [k \in 1..Len(HostMemory) |-> ExpectedByte(module, k - 1)]

C17_TwoSegments ==
    /\ pc = "load" /\ pstatus = "inited"
    /\ Len(module.data_segments) = 2
    /\ memory = <<1, 3, 9, 9>>

-----------------------------------------------------------------------------
(* The execution profile *)

\* C18: the per-opcode counters accumulate across the invocations on one
\* VmContext: the counter of op is the number of times op was dispatched
\* since the VmContext was created or reset_profile() was last called;
\* starting an invocation does not reset them and reset_profile() zeroes
\* every counter.
C18_CountersAccumulate ==
    \A op \in 0..254 : ProfileCount(op) = CopiesIn(op, trace.dispatched)

C18_SecondInvocationCounted ==
    /\ pc = "idle" /\ ninv = 2 /\ result.kind = "ok"
    /\ ProfileCount(32) = 2 /\ ProfileCount(11) = 2


-----------------------------------------------------------------------------
(* SpecTests: the end-to-end tests of lib.rs (factorial, multivalue_sub),  *)
(* each a loop of invocations on one VmContext.  The .wasm inputs are the  *)
(* modules the tests name: fac as the recursive f64 factorial, reverseSub  *)
(* calling a two-result swap and subtracting.                              *)

MaxFacArg == 10      \* factorial: i runs over 0..MaxFacArg
NumSubA == 10        \* multivalue_sub: i runs over 0..NumSubA - 1
NumSubB == 10        \* multivalue_sub: j runs over MinSubB..MinSubB + NumSubB - 1
MinSubB == 10

FacCode ==
    << 32, 0,                               \* local.get 0
       68, 0, 0, 0, 0, 0, 0, 240, 63,       \* f64.const 1
       99,                                  \* f64.lt
       4, 124,                              \* if (result f64)
       68, 0, 0, 0, 0, 0, 0, 240, 63,       \*   f64.const 1
       5,                                   \* else
       32, 0,                               \*   local.get 0
       32, 0,                               \*   local.get 0
       68, 0, 0, 0, 0, 0, 0, 240, 63,       \*   f64.const 1
       161,                                 \*   f64.sub
       16, 0,                               \*   call 0
       162,                                 \*   f64.mul
       11,                                  \* end
       11 >>                                \* end

FactorialModule ==
    BuildModule(<< Src({"fac"}, TRUE, <<F64>>, <<F64>>, <<>>, FacCode, 16) >>, <<>>)

MultivalueModule ==
    BuildModule(<<
        \* 0: swap(i32, i32) -> (i32, i32):  local.get 1; local.get 0; end
        Src({}, TRUE, <<I32, I32>>, <<I32, I32>>, <<>>, <<32, 1, 32, 0, 11>>, 16),
        \* 1: reverseSub(i32, i32) -> i32:
        \*    local.get 0; local.get 1; call 0; i32.sub; end
        Src({"reverseSub"}, TRUE, <<I32, I32>>, <<I32>>, <<>>,
            <<32, 0, 32, 1, 16, 0, 107, 11>>, 24) >>, <<>>)

\* `native_factorial(i) as f64` as the words of the result
to_words_f64(v) == Words(F64, int_to_f64(v))

RECURSIVE native_factorial(_)
native_factorial(n) == IF n = 0 THEN 1 ELSE n * native_factorial(n - 1)

\* The loop variables of the test at its k-th iteration (k from 0)
FacArg(k) == k
SubA(k) == k \div NumSubB
SubB(k) == MinSubB + (k % NumSubB)

\* The call of the k-th iteration and the value its assert_eq! expects
TestCall(k) ==
    IF module = FactorialModule
    THEN Call("fac", <<F64>>, << Words(F64, int_to_f64(FacArg(k))) >>, F64)
    ELSE Call("reverseSub", <<I32, I32>>, << <<SubA(k)>>, <<SubB(k)>> >>, I32)
TestExpected(k) ==
    IF module = FactorialModule
    THEN Words(F64, int_to_f64(native_factorial(FacArg(k))))
    ELSE << SubB(k) - SubA(k) >>
TestIterations ==
    IF module = FactorialModule THEN MaxFacArg + 1 ELSE NumSubA * NumSubB

InitTests ==
    /\ debug \in BOOLEAN
    /\ module \in {FactorialModule, MultivalueModule}
    /\ stack = NewStack /\ call_stack = <<>>
    /\ locals = <<>> /\ profile = EmptyMap /\ memory = <<>>
    /\ globals = <<>> /\ pc = "idle" /\ cur = Input(NoCall)
    /\ result = NoResult /\ log = {} /\ ninv = 0
    /\ trace = [locals_len |-> 0, steps |-> 0, host |-> <<>>, dispatched |-> EmptyBag]
    /\ ScanOff /\ StackOff

\* The next iteration of the test's loop: the previous result went through
\* unwrap() and assert_eq!
TestInvoke ==
    /\ pc = "idle" /\ ninv < TestIterations
    /\ ninv > 0 => result = OkResult(TestExpected(ninv - 1))
    /\ StartCall(TestCall(ninv))

Abs(v) == IF v < 0 THEN -v ELSE v

\* The operands of an f64 handler, where both are there, are integers on
\* which the arithmetic above is exact (their product too, for f64.mul)
F64Exact(product) ==
    (OperandB(F64).st = "ok" /\ OperandA(F64, F64).st = "ok") =>
        /\ f64_small_int(OperandA(F64, F64).val)
        /\ f64_small_int(OperandB(F64).val)
        /\ product =>
              \/ f64_is_zero(OperandB(F64).val)
              \/ Abs(f64_to_int(OperandA(F64, F64).val))
                    <= 1073741823 \div Abs(f64_to_int(OperandB(F64).val))

OpIf ==
    Fetched(4) /\
        \E out \in {exec_if(read_TypeKind(CurBody.code, Fetch.pos))} : Commit(4, out)
OpElse     == Fetched(5) /\ \E out \in {exec_else(Fetch.pos)} : Commit(5, out)
OpF64Const ==
    Fetched(68) /\
        \E out \in {exec_f64_const(read_bytes(CurBody.code, Fetch.pos, 8))} : Commit(68, out)
OpF64Lt    == Fetched(99)  /\ F64Exact(FALSE) /\ Commit(99, exec_f64_lt(Fetch.pos))
OpI32Sub ==
    Fetched(107) /\ \E out \in {exec_i32_sub(Fetch.pos)} : Commit(107, out)
OpF64Sub   == Fetched(161) /\ F64Exact(FALSE) /\ Commit(161, exec_f64_sub(Fetch.pos))
OpF64Mul   == Fetched(162) /\ F64Exact(TRUE) /\ Commit(162, exec_f64_mul(Fetch.pos))

NextTests ==
    \/ TestInvoke
    \/ OpIf \/ OpElse \/ OpEnd \/ OpCall \/ OpLocalGet
    \/ OpF64Const \/ OpF64Lt \/ OpF64Sub \/ OpF64Mul \/ OpI32Sub
    \/ FrameEnd \/ Return

SpecTests == InitTests /\ [][NextTests]_vars

\* The arguments of the invocation in progress or just finished
FacN == f64_to_int(Val(F64, cur.call.vals[1]))
SubArgA == cur.call.vals[1][1]
SubArgB == cur.call.vals[2][1]

\* C19: every invocation of fac in the factorial test's loop over n (up to
\* MaxFacArg, all on one VmContext) returns Ok(n! as f64), and leaves the
\* call stack and the locals arena empty.
C19_FactorialExact ==
    (module = FactorialModule /\ pc = "idle" /\ ninv > 0) =>
        /\ FacN = ninv - 1
        /\ result = OkResult(to_words_f64(native_factorial(FacN)))
        /\ call_stack = <<>>
        /\ locals = <<>>

\* fac(10.0) came back as 3628800.0 (0x414BAF80_00000000) after the ten
\* invocations before it
C19_TenFactorial ==
    /\ module = FactorialModule /\ pc = "idle" /\ ninv = 11
    /\ FacN = 10
    /\ result = OkResult(<<0, 1095479168>>)
    /\ call_stack = <<>> /\ locals = <<>>

\* The operand stack when a frame of fac at depth d (1 = outermost) is back
\* in control after its recursive call: the pending n of every frame down
\* to this one, then the callee's result
FacPending(d) ==
    Flatten([k \in 1..d |-> to_le_bytes(F64, int_to_f64(FacN - (k - 1)))])
FacStackAfterCall(d) ==
    FacPending(d) \o to_le_bytes(F64, int_to_f64(native_factorial(FacN - d)))

\* C20: when a call to a defined function has returned, the operand stack
\* is what lay below the arguments followed by the callee's results in
\* order: in reverseSub(a, b) after swap returns it is b then a, and the
\* invocation returns Ok(b - a) for every pair of the test's loops; in fac
\* it is the callers' pending values followed by the callee's factorial.
C20_ResultsReachCaller ==
    /\ (module = MultivalueModule /\ pc = "running" /\ Len(call_stack) = 1
            /\ Top.pos = 6) =>
          stack.data = to_le_bytes(I32, SubArgB) \o to_le_bytes(I32, SubArgA)
    /\ (module = MultivalueModule /\ pc = "idle" /\ ninv > 0) =>
          /\ SubArgA = SubA(ninv - 1) /\ SubArgB = SubB(ninv - 1)
          /\ result = OkResult(<<SubArgB - SubArgA>>)
    /\ (module = FactorialModule /\ pc = "running" /\ call_stack # <<>>
            /\ Top.pos = 40) =>
          stack.data = FacStackAfterCall(Len(call_stack))

\* reverseSub(9, 19): swap has returned and left 19 then 9 for i32.sub
C20_SwapReturned ==
    /\ module = MultivalueModule /\ pc = "running" /\ Len(call_stack) = 1
    /\ Top.func_idx = 1 /\ Top.pos = 6
    /\ cur.call.vals = << <<9>>, <<19>> >>
    /\ stack.data = <<19, 0, 0, 0, 9, 0, 0, 0>>
    /\ trace.steps = 6

-----------------------------------------------------------------------------
(* SpecFlow: structured control flow, calls and locals.  One invocation    *)
(* of a function of FlowModule on a fresh VmContext.                       *)

MaxCountdown == 100

\* count += 1; n -= 1, leaving the new n on the stack (locals 0 = n, 1 = count)
CountStep ==
    << 32, 1, 65, 1, 106, 33, 1,            \* local.get 1; i32.const 1; i32.add; local.set 1
       32, 0, 65, 1, 107, 34, 0 >>          \* local.get 0; i32.const 1; i32.sub; local.tee 0

FlowSources == <<
    \* 0: loopdown(n) -> i32, local count:
    \*    loop; CountStep; br_if 0; end; local.get 1; end
    Src({"loopdown"}, TRUE, <<I32>>, <<I32>>, <<I32>>,
        <<3, 64>> \o CountStep \o <<13, 0, 11, 32, 1, 11>>, 16),
    \* 1: blockdown(n) -> i32, local count:
    \*    block; loop; block; CountStep; br_if 0; br 2; end; br 0; end; end;
    \*    local.get 1; end
    Src({"blockdown"}, TRUE, <<I32>>, <<I32>>, <<I32>>,
        <<2, 64, 3, 64, 2, 64>> \o CountStep
            \o <<13, 0, 12, 2, 11, 12, 0, 11, 11, 32, 1, 11>>, 48),
    \* 2: ifvoid(c) -> i32:  local.get 0; if void; end; i32.const 5; end
    Src({"ifvoid"}, TRUE, <<I32>>, <<I32>>, <<>>,
        <<32, 0, 4, 64, 11, 65, 5, 11>>, 80),
    \* 3: ifelse(c) -> i32:
    \*    local.get 0; if i32; i32.const 1; else; i32.const 2; end;
    \*    i32.const 3; i32.add; end
    Src({"ifelse"}, TRUE, <<I32>>, <<I32>>, <<>>,
        <<32, 0, 4, 127, 65, 1, 5, 65, 2, 11, 65, 3, 106, 11>>, 96),
    \* 4: blockif(c) -> i32:
    \*    block; local.get 0; if i32; i32.const 1; else; i32.const 2; end;
    \*    local.set 0; br 0; end; local.get 0; end
    Src({"blockif"}, TRUE, <<I32>>, <<I32>>, <<>>,
        <<2, 64, 32, 0, 4, 127, 65, 1, 5, 65, 2, 11, 33, 0, 12, 0, 11, 32, 0,
          11>>, 112),
    \* 5: mid(x) -> i32:
    \*    block; block; block; br 1; end; end; end; local.get 0; end
    Src({"mid"}, TRUE, <<I32>>, <<I32>>, <<>>,
        <<2, 64, 2, 64, 2, 64, 12, 1, 11, 11, 11, 32, 0, 11>>, 144),
    \* 6: tbl(s) -> i32, local r:
    \*    block; block; block; local.get 0; br_table [0, 1] 2; end;
    \*    i32.const 10; local.set 1; br 1; end;
    \*    i32.const 20; local.set 1; end; local.get 1; end
    Src({"tbl"}, TRUE, <<I32>>, <<I32>>, <<I32>>,
        <<2, 64, 2, 64, 2, 64, 32, 0, 14, 2, 0, 1, 2, 11,
          65, 10, 33, 1, 12, 1, 11,
          65, 20, 33, 1, 11, 32, 1, 11>>, 160),
    \* 7: ret(x) -> i32:
    \*    local.get 0; local.get 0; br_if 0; drop; i32.const 0; end
    Src({"ret"}, TRUE, <<I32>>, <<I32>>, <<>>,
        <<32, 0, 32, 0, 13, 0, 26, 65, 0, 11>>, 192),
    \* 8: sg(a, b) -> i32, local t:
    \*    local.get 0; local.set 2; local.get 1; local.tee 0; local.get 2;
    \*    i32.add; end
    Src({"sg"}, TRUE, <<I32, I32>>, <<I32>>, <<I32>>,
        <<32, 0, 33, 2, 32, 1, 34, 0, 32, 2, 106, 11>>, 208),
    \* 9: caller(x) -> i32, local k:
    \*    i32.const 7; local.tee 1; local.get 0; i32.const 3; call 8; i32.sub; end
    Src({"caller"}, TRUE, <<I32>>, <<I32>>, <<I32>>,
        <<65, 7, 34, 1, 32, 0, 65, 3, 16, 8, 107, 11>>, 224),
    \* 10: brout(x) -> i32:  local.get 0; block; br 1; end; end
    Src({"brout"}, TRUE, <<I32>>, <<I32>>, <<>>,
        <<32, 0, 2, 64, 12, 1, 11, 11>>, 240),
    \* 11: tblout(s) -> i32:  local.get 0; local.get 0; br_table [] 0; end
    Src({"tblout"}, TRUE, <<I32>>, <<I32>>, <<>>,
        <<32, 0, 32, 0, 14, 0, 0, 11>>, 256),
    \* 12: setget(x: i64, y: i32) -> i64, locals w: i64, z: i32:
    \*    local.get 1; local.tee 3; drop; local.get 0; local.set 2;
    \*    local.get 2; end
    Src({"setget"}, TRUE, <<I64, I32>>, <<I64>>, <<I64, I32>>,
        <<32, 1, 34, 3, 26, 32, 0, 33, 2, 32, 2, 11>>, 272) >>

FlowModule == BuildModule(FlowSources, <<>>)

FlowCall(name, v) == Call(name, <<I32>>, << <<v>> >>, I32)

\* The invocations the host may make on FlowModule
FlowCalls ==
    { FlowCall(f, n) : f \in {"loopdown", "blockdown"}, n \in {1, 2, 3, MaxCountdown} }
    \cup { FlowCall(f, c) : f \in {"ifvoid", "ifelse", "blockif", "ret", "brout"},
                            c \in {0, 1} }
    \cup { FlowCall("tbl", sel) : sel \in {-1, 0, 1, 2, 5} }
    \cup { FlowCall("tblout", 0), FlowCall("mid", 4), FlowCall("caller", 2),
           Call("sg", <<I32, I32>>, << <<5>>, <<9>> >>, I32),
           Call("setget", <<I64, I32>>, << <<305419896, -2023406815>>, <<6>> >>,
                I64) }

InitFlow ==
    /\ debug \in BOOLEAN
    /\ module = FlowModule
    /\ stack = NewStack /\ call_stack = <<>>
    /\ locals = <<>> /\ profile = EmptyMap /\ memory = <<>>
    /\ globals = <<>> /\ pc = "idle" /\ cur = Input(NoCall)
    /\ result = NoResult /\ log = {} /\ ninv = 0
    /\ trace = [locals_len |-> 0, steps |-> 0, host |-> <<>>, dispatched |-> EmptyBag]
    /\ ScanOff /\ StackOff

\* The host's one call of execute_function
FlowInvoke ==
    /\ pc = "idle" /\ cur.call = NoCall
    /\ \E c \in FlowCalls : StartCall(c)

OpBlock ==
    Fetched(2) /\ \E im \in {Imm} :
        \E out \in {exec_opening("Block", im)} : Commit(2, out)
OpLoop ==
    Fetched(3) /\ \E im \in {Imm} :
        \E out \in {exec_opening("Loop", im)} : Commit(3, out)
OpBr ==
    Fetched(12) /\ \E im \in {Imm} :
        \E out \in {exec_br(im)} : Commit(12, out)
OpBrIf ==
    Fetched(13) /\ \E im \in {Imm} :
        \E out \in {exec_br_if(im)} : Commit(13, out)
OpBrTable ==
    Fetched(14) /\ \E v \in {pop_i32(stack)} :
        \E out \in {exec_br_table(v, Fetch.pos)} : Commit(14, out)
OpLocalSet ==
    Fetched(33) /\ \E im \in {Imm} :
        \E out \in {exec_local_set(im)} : Commit(33, out)
OpLocalTee ==
    Fetched(34) /\ \E im \in {Imm} :
        \E out \in {exec_local_tee(im)} : Commit(34, out)
OpI32Add ==
    Fetched(106) /\ \E out \in {exec_i32_add(Fetch.pos)} : Commit(106, out)

NextFlow ==
    \/ FlowInvoke
    \/ OpUnreachable \/ OpBlock \/ OpLoop \/ OpIf \/ OpElse \/ OpEnd
    \/ OpBr \/ OpBrIf \/ OpBrTable \/ OpCall \/ OpDrop
    \/ OpLocalGet \/ OpLocalSet \/ OpLocalTee
    \/ OpI32Const \/ OpI32Add \/ OpI32Sub
    \/ FrameEnd \/ Return

SpecFlow == InitFlow /\ [][NextFlow]_vars

\* The loop runs to its end whenever it can take a step: evaluate is a
\* plain `while let` loop and nothing else is scheduled
SpecFlowFair == SpecFlow /\ WF_vars(NextFlow)

\* The frame on top after the step
TopAfter == call_stack'[Len(call_stack')]

\* The argument of the countdown in progress
CountdownCall == cur.call.name \in {"loopdown", "blockdown"}
CountdownN == cur.call.vals[1][1]
CountdownDepth == IF cur.call.name = "loopdown" THEN 1 ELSE 3

\* The countdown is about to branch back to its loop: loopdown by a taken
\* br_if 0, blockdown by br 0
BackEdge ==
    \/ /\ cur.call.name = "loopdown" /\ Fetched(13) /\ Imm.val = 0
       /\ pop_i32(stack).st = "ok" /\ pop_i32(stack).val # 0
    \/ /\ cur.call.name = "blockdown" /\ Fetched(12) /\ Imm.val = 0

\* C21: a countdown from n written with loop / br_if terminates and returns
\* the same value (the number of iterations, n) as the one written with
\* block / br; a taken branch to the loop lands on the loop's first
\* instruction with the block stack as it was, so the frame never holds
\* more descriptors than the constructs that are open.
C21_CountdownTerminates ==
    /\ [](CountdownCall =>
            /\ pc # "panicked"
            /\ pc = "idle" => result = OkResult(<<CountdownN>>)
            /\ (pc = "running" /\ call_stack # <<>>) =>
                  Len(Top.blocks) <= CountdownDepth)
    /\ [][BackEdge =>
            /\ Top.blocks # <<>>
            /\ Top.blocks[Len(Top.blocks)].kind = "Loop"
            /\ TopAfter.pos = Top.blocks[Len(Top.blocks)].body_offset
            /\ TopAfter.blocks = Top.blocks
            /\ CurBody.code[TopAfter.pos - 1] = 3]_vars
    /\ ((CountdownCall /\ pc = "running") ~> (pc = "idle"))

\* The countdown from MaxCountdown written with loop / br_if has returned
C21_LongCountdownDone ==
    /\ pc = "idle" /\ cur.call.name = "loopdown" /\ CountdownN = MaxCountdown
    /\ result = OkResult(<<MaxCountdown>>)
    /\ ProfileCount(13) = MaxCountdown /\ ProfileCount(3) = 1

-----------------------------------------------------------------------------
(* if / else / end *)

\* `if` is about to run with an i32 on top of the operand stack
IfWithCondition == Fetched(4) /\ pop_i32(stack).st = "ok"

\* C22: `if` pops exactly one i32 condition whatever its block type is; on
\* zero the cursor moves to jump_targets[if_offset], otherwise it continues
\* into the then-arm (the byte after the block type).
C22_IfPopsI32 ==
    [][IfWithCondition =>
          /\ pc' = "running"
          /\ stack' = pop_i32(stack).stack
          /\ TopAfter.pos = IF pop_i32(stack).val = 0 THEN JumpTarget
                            ELSE Fetch.pos + 1]_vars

\* C23: when the then-arm falls through to `else`, the cursor is set to
\* jump_targets[else_offset], the position immediately past the matching
\* `end`, so the instruction after the construct is the next one executed.
C23_ElseSkipsToEnd ==
    [][(Fetched(5) /\ HasJumpTarget) =>
          /\ pc' = "running"
          /\ TopAfter.pos = JumpTarget
          /\ CurBody.code[TopAfter.pos] = 11]_vars

\* The block and loop constructs of code that enclose the cursor pos: opened
\* before it and not closed by an `end` before it
EnclosingBlocks(code, B, pos) ==
    { i \in 1..Len(B) :
        /\ OpAt(code, B[i]) \in {2, 3}
        /\ B[i] < pos
        /\ Match(code, B, i) > 0
        /\ pos <= B[Match(code, B, i)] }
AtBoundary(B, pos) == \E i \in 1..Len(B) : B[i] = pos

\* C24: at every instruction boundary the top frame's block stack has
\* exactly one descriptor for each block or loop construct that encloses the
\* cursor, so an if construct leaves the block stack as it found it.  Stated
\* for the runs in which no `else` opcode has been dispatched: there the
\* cursor has only moved from one instruction to the next or along a branch.
C24_BlocksMatchNesting ==
    (pc = "running" /\ call_stack # <<>> /\ ProfileCount(5) = 0
        /\ AtBoundary(Boundaries(CurBody.code, 0), Top.pos)) =>
      Len(Top.blocks) =
        Cardinality(EnclosingBlocks(CurBody.code, Boundaries(CurBody.code, 0),
                                    Top.pos))

\* C25: `end` pops the innermost block descriptor; with no open descriptor
\* it ends the function: the frame is popped, or is left with nothing more
\* to read so that it is popped before another instruction of it runs.
C25_EndPopsOrReturns ==
    [][Fetched(11) =>
          IF Top.blocks # <<>>
          THEN /\ Len(call_stack') = Len(call_stack)
               /\ TopAfter.blocks = SubSeq(Top.blocks, 1, Len(Top.blocks) - 1)
               /\ TopAfter.pos = Fetch.pos
          ELSE \/ Len(call_stack') = Len(call_stack) - 1
               \/ /\ Len(call_stack') = Len(call_stack)
                  /\ read_u8(CurBody.code, TopAfter.pos).st = "EndOfStream"]_vars

-----------------------------------------------------------------------------
(* br, br_table *)

\* `br k` is about to run with k smaller than the number of open descriptors
BrInRange == Fetched(12) /\ Imm.st = "ok" /\ Imm.val < Len(Top.blocks)

\* The descriptor `br k` selects: the k-th from the top
BrTarget == Top.blocks[Len(Top.blocks) - Imm.val]

\* The position of the `end` that structurally matches the opening at pos
MatchingEnd(code, B, pos) ==
    Least({ B[Match(code, B, i)] : i \in { j \in 1..Len(B) : B[j] = pos } })

\* C26: `br k` selects the k-th descriptor from the top.  For a loop the
\* cursor moves to the loop's first instruction; for a block it moves to the
\* block's matching `end`, which then pops the block.  The descriptors above
\* the target are removed; the target and those below it stay as they were.
C26_BrSelectsKth ==
    [][BrInRange =>
          /\ pc' = "running" /\ stack' = stack /\ locals' = locals
          /\ TopAfter.blocks = SubSeq(Top.blocks, 1, Len(Top.blocks) - Imm.val)
          /\ IF BrTarget.kind = "Loop"
             THEN /\ TopAfter.pos = BrTarget.body_offset
                  /\ CurBody.code[TopAfter.pos - 1] = 3
                  /\ TopAfter.pos - 2 = BrTarget.offset - CurBody.offset
             ELSE /\ CurBody.code[TopAfter.pos + 1] = 11
                  /\ TopAfter.pos =
                       MatchingEnd(CurBody.code, Boundaries(CurBody.code, 0),
                                   BrTarget.offset - CurBody.offset)]_vars

\* br 1 has left the middle one of three nested blocks of `mid`: the
\* innermost descriptor is gone and the cursor is on the middle block's end
C26_MiddleBlockLeft ==
    /\ pc = "running" /\ cur.call.name = "mid" /\ call_stack # <<>>
    /\ ProfileCount(12) = 1 /\ Len(Top.blocks) = 2
    /\ read_u8(CurBody.code, Top.pos).val = 11

\* br_table's immediates where each is a one-byte LEB: the count, the i-th
\* listed depth (the default for i = count), the position past them all
TableN == CurBody.code[Fetch.pos + 1]
TableEntry(i) == CurBody.code[Fetch.pos + 2 + i]
TableEnd == Fetch.pos + TableN + 2
TableReady ==
    /\ Fetched(14) /\ pop_i32(stack).st = "ok"
    /\ TableEnd <= Len(CurBody.code)
    /\ \A p \in (Fetch.pos + 1)..TableEnd : CurBody.code[p] < 128

\* The depth the documented br_table takes for the selector on the stack
TableDepth ==
    IF pop_i32(stack).val >= 0 /\ pop_i32(stack).val < TableN
    THEN TableEntry(pop_i32(stack).val)
    ELSE TableEntry(TableN)

\* A branch is about to be taken whose depth is the number of open
\* descriptors: its target is the function body's own label
BranchToBody ==
    \/ Fetched(12) /\ Imm.st = "ok" /\ Imm.val = Len(Top.blocks)
    \/ /\ Fetched(13) /\ Imm.st = "ok" /\ Imm.val = Len(Top.blocks)
       /\ pop_i32(stack).st = "ok" /\ pop_i32(stack).val # 0
    \/ TableReady /\ TableDepth = Len(Top.blocks)

\* C27: a branch whose depth equals the number of open descriptors returns
\* from the current function: the frame is popped, or left with nothing
\* more to execute, and do_branch does not index outside the block stack.
C27_BranchToBodyReturns ==
    [][BranchToBody =>
          /\ pc' = "running"
          /\ \/ Len(call_stack') = Len(call_stack) - 1
             \/ /\ Len(call_stack') = Len(call_stack)
                /\ TopAfter.blocks = <<>>
                /\ TopAfter.pos >= Len(CurBody.code) - 1]_vars

\* br_table is about to branch to one of the open descriptors
TableInRange == TableReady /\ TableDepth < Len(Top.blocks)
TableTarget == Top.blocks[Len(Top.blocks) - TableDepth]

\* C28: br_table pops one i32 selector s and branches as `br d_s` when
\* 0 <= s < n and as `br default` otherwise, negative s included; the
\* branch is taken past the n + 1 depth immediates, all of them readable.
C28_BrTableSelects ==
    [][TableInRange =>
          /\ pc' = "running" /\ locals' = locals
          /\ stack' = pop_i32(stack).stack
          /\ TopAfter.blocks = SubSeq(Top.blocks, 1, Len(Top.blocks) - TableDepth)
          /\ IF TableTarget.kind = "Loop"
             THEN TopAfter.pos = TableTarget.body_offset
             ELSE TopAfter.pos =
                    MatchingEnd(CurBody.code, Boundaries(CurBody.code, 0),
                                TableTarget.offset - CurBody.offset)]_vars

\* The negative selector -1 has taken the default depth 2 of tbl's table:
\* only the outermost of the three blocks is left
C28_DefaultTakenOnNegative ==
    /\ pc = "running" /\ cur.call.name = "tbl" /\ call_stack # <<>>
    /\ cur.call.vals[1][1] = -1
    /\ ProfileCount(14) = 1 /\ trace.steps = 5
    /\ Len(Top.blocks) = 1 /\ stack.data = <<>>

-----------------------------------------------------------------------------
(* call and the locals arena *)

\* `call idx` is about to run for a function with a body whose parameters
\* are on the operand stack
Callee == get_function_by_index(module, Imm.val)
CallWithBody ==
    /\ Fetched(16) /\ Imm.st = "ok" /\ Callee.has
    /\ Callee.body.params_len_in_bytes <= Len(stack.data)
ParamsFrom == Len(stack.data) - Callee.body.params_len_in_bytes

\* C29: the call pushes a frame whose locals_offset is the arena length
\* before the call; the frame's region is the top params_bytes bytes of the
\* operand stack, in their order, followed by non_param_locals_bytes zero
\* bytes; exactly those bytes leave the stack and the rest of it stays.
C29_CallTransfersParams ==
    [][CallWithBody =>
          /\ pc' = "running"
          /\ Len(call_stack') = Len(call_stack) + 1
          /\ TopAfter.func_idx = Imm.val /\ TopAfter.pos = 0
          /\ TopAfter.locals_offset = Len(locals)
          /\ locals' = locals \o Slice(stack.data, ParamsFrom, Len(stack.data))
                \o [i \in 1..Callee.body.non_param_locals_len_in_bytes |-> 0]
          /\ stack'.data = Slice(stack.data, 0, ParamsFrom)]_vars

\* caller(2) has called sg(2, 3) with 7 below the arguments: sg's frame
\* holds 2, 3 and a zeroed local above caller's own locals, and 7 is what
\* the stack keeps
C29_CalleeFrameBuilt ==
    /\ pc = "running" /\ cur.call.name = "caller" /\ Len(call_stack) = 2
    /\ Top.pos = 0 /\ Top.locals_offset = 8
    /\ locals = <<2, 0, 0, 0, 7, 0, 0, 0, 2, 0, 0, 0, 3, 0, 0, 0, 0, 0, 0, 0>>
    /\ stack.data = <<7, 0, 0, 0>>

\* A local.get (32), local.set (33) or local.tee (34) of an existing local is
\* about to run; the local's kind, and where its bytes lie in the arena
LocalAccess(op) ==
    Fetched(op) /\ Imm.st = "ok" /\ Imm.val < Len(CurBody.locals_types)
LocalLen == len_bytes(CurBody.locals_types[Imm.val + 1])
LocalAt == Top.locals_offset + CurBody.locals_offsets[Imm.val + 1]
LocalWrite ==
    (LocalAccess(33) \/ LocalAccess(34)) /\ LocalLen <= Len(stack.data)

\* C30: local.set and local.tee write the top value of the operand stack
\* into the bytes of local i of the current frame and change no other arena
\* byte (the frame's other locals, the callers' locals); local.tee leaves
\* the operand stack as it is, local.set pops the value; local.get pushes
\* the bytes of local i, so a local.get i after local.set i pushes the
\* value that was set.
C30_LocalsFrameEffect ==
    /\ [][LocalWrite =>
            /\ pc' = "running"
            /\ Len(locals') = Len(locals)
            /\ \A j \in 1..Len(locals) :
                  (j <= LocalAt \/ j > LocalAt + LocalLen) => locals'[j] = locals[j]
            /\ Slice(locals', LocalAt, LocalAt + LocalLen)
                 = Slice(stack.data, Len(stack.data) - LocalLen, Len(stack.data))
            /\ IF Fetch.val = 34 THEN stack' = stack
               ELSE stack'.data = Slice(stack.data, 0, Len(stack.data) - LocalLen)]_vars
    /\ [][LocalAccess(32) =>
            /\ pc' = "running" /\ locals' = locals
            /\ stack'.data = stack.data \o Slice(locals, LocalAt, LocalAt + LocalLen)]_vars
    /\ []((pc = "idle" /\ cur.call.name = "setget") =>
            result = OkResult(cur.call.vals[1]))
    /\ []((pc = "idle" /\ cur.call.name = "sg") => result = OkResult(<<14>>))

\* Inside sg called from caller, local.set 2 and local.tee 0 have written
\* sg's locals t and a above caller's untouched locals, and the tee has left
\* its operand on the stack
C30_CalleeLocalsWritten ==
    /\ pc = "running" /\ cur.call.name = "caller" /\ Len(call_stack) = 2
    /\ Top.pos = 8
    /\ locals = <<2, 0, 0, 0, 7, 0, 0, 0, 3, 0, 0, 0, 3, 0, 0, 0, 2, 0, 0, 0>>
    /\ stack.data = <<7, 0, 0, 0, 3, 0, 0, 0>>

-----------------------------------------------------------------------------
(* The walker against the handlers *)

\* The walker is about to read an opcode that evaluate has an arm for
ScanAtHandled ==
    /\ pstatus = "scanning" /\ rpos < Len(rdata)
    /\ rdata[rpos + 1] \in Handled

\* C31: for every opcode evaluate executes, the stores 0x36..0x3e included,
\* parse_opcode reads as many immediate bytes as the opcode's handler, so
\* that both stand on the same next opcode.
C31_WalkerMatchesHandlers ==
    ScanAtHandled =>
        skip_imm(rdata, rpos + 1, WalkerImm(rdata[rpos + 1]))
          = skip_imm(rdata, rpos + 1, InterpImm(rdata[rpos + 1]))

\* Where the section starting at pos ends by its declared length
DeclaredEnd(data, pos) == read_usize(data, pos + 1).pos + read_usize(data, pos + 1).val

\* One iteration of the section loop ran its arm to the end
ArmFinished ==
    /\ pc = "load" /\ pstatus = "sections" /\ pstatus' = "sections"
    /\ rpos' # rpos

\* C32: for every section that parse handles, when the section's handler
\* finishes the reader's cursor is at the section's body start plus its
\* declared length, so that the next byte read is the next section's kind byte.
C32_CursorAtDeclaredEnd ==
    [][ArmFinished => rpos' = DeclaredEnd(rdata, rpos)]_vars

-----------------------------------------------------------------------------
(* SpecNum: constants, arithmetic and conversions on their edge operands *)

NumSources == <<
    \* 0: c64neg() -> i64:  i64.const -1; end
    Src({"c64neg"}, TRUE, <<>>, <<I64>>, <<>>, <<66, 127, 11>>, 16),
    \* 1: c64pos() -> i64:  i64.const 1; end
    Src({"c64pos"}, TRUE, <<>>, <<I64>>, <<>>, <<66, 1, 11>>, 24),
    \* 2: c64two() -> i64:  i64.const -128 (80 7f); end
    Src({"c64two"}, TRUE, <<>>, <<I64>>, <<>>, <<66, 128, 127, 11>>, 32),
    \* 3..6: add, sub, mul, shru (i32, i32) -> i32:  local.get 0; local.get 1; op; end
    Src({"add"}, TRUE, <<I32, I32>>, <<I32>>, <<>>, <<32, 0, 32, 1, 106, 11>>, 40),
    Src({"sub"}, TRUE, <<I32, I32>>, <<I32>>, <<>>, <<32, 0, 32, 1, 107, 11>>, 48),
    Src({"mul"}, TRUE, <<I32, I32>>, <<I32>>, <<>>, <<32, 0, 32, 1, 108, 11>>, 56),
    Src({"shru"}, TRUE, <<I32, I32>>, <<I32>>, <<>>, <<32, 0, 32, 1, 118, 11>>, 64),
    \* 7: wrap(i64) -> i32:  local.get 0; i32.wrap_i64; end
    Src({"wrap"}, TRUE, <<I64>>, <<I32>>, <<>>, <<32, 0, 167, 11>>, 72),
    \* 8: extu(i32) -> i64:  local.get 0; i64.extend_i32_u; end
    Src({"extu"}, TRUE, <<I32>>, <<I64>>, <<>>, <<32, 0, 173, 11>>, 80),
    \* 9: ext8(i32) -> i32:  local.get 0; i32.extend8_s; end
    Src({"ext8"}, TRUE, <<I32>>, <<I32>>, <<>>, <<32, 0, 192, 11>>, 88) >>

\* The store/load pairs: the store's opcode and kind, the load's opcode and
\* kind, the width in bytes, whether the load sign-extends, and the static
\* offset.  (i64.store8 and i64.store32 carry align 0 and offset 0: the
\* pre-scan reads their immediates as opcodes, and passes over nothing else.)
Pair(name, st, tv, ld, tr, n, signed, off) ==
    [name |-> name, st |-> st, tv |-> tv, ld |-> ld, tr |-> tr, n |-> n,
     signed |-> signed, off |-> off]
StLdPairs == <<
    Pair("w32",   54, I32, 40, I32, 4, TRUE,  2),
    Pair("w8s",   58, I32, 44, I32, 1, TRUE,  2),
    Pair("w8u",   58, I32, 45, I32, 1, FALSE, 0),
    Pair("w16s",  59, I32, 46, I32, 2, TRUE,  0),
    Pair("w16u",  59, I32, 47, I32, 2, FALSE, 2),
    Pair("d64",   55, I64, 41, I64, 8, TRUE,  2),
    Pair("d8s",   60, I64, 48, I64, 1, TRUE,  0),
    Pair("d8u",   60, I64, 49, I64, 1, FALSE, 0),
    Pair("d16s",  61, I64, 50, I64, 2, TRUE,  2),
    Pair("d16u",  61, I64, 51, I64, 2, FALSE, 0),
    Pair("d32s",  62, I64, 52, I64, 4, TRUE,  0),
    Pair("d32u",  62, I64, 53, I64, 4, FALSE, 0) >>

\* name(addr: i32, v) -> tr:
\*   local.get 0; local.get 1; store 0 off; local.get 0; load 0 off; end
StLdSource(p, k) ==
    Src({p.name}, TRUE, <<I32, p.tv>>, <<p.tr>>, <<>>,
        <<32, 0, 32, 1, p.st, 0, p.off, 32, 0, p.ld, 0, p.off, 11>>, 96 + 16 * k)
StLdSources == [k \in 1..Len(StLdPairs) |-> StLdSource(StLdPairs[k], k)]

NumModule == BuildModule(NumSources \o StLdSources, <<>>)

\* The linear memory the host hands in
NumMemory == <<17, 18, 19, 20, 21, 22, 23, 24, 25, 26, 27, 28>>

\* The invocations the host may make on NumModule
EdgeI32 == {-2147483647 - 1, -2147483647, -65536, -129, -128, -1, 0, 1, 127, 128,
            255, 46341, 65536, 2147483647}
ShiftCounts == {-1, 0, 1, 4, 31, 32, 33}
\* Dynamic addresses, in and out of NumMemory and with the sign bit set, and
\* the values stored (one word for an i32, two for an i64)
Addresses == {0, 1, 4, 9, 10, 12, -1, -2, -2147483647 - 1}
StoredWords ==
    { <<305419896>>, <<-2023406815>>, <<128>>, <<-129>>, <<32768>> }
    \cup { <<305419896, -2023406815>>, <<-2023406815, 305419896>>,
            <<128, -1>>, <<-32768, 0>> }
StoredAs(ty) == { w \in StoredWords : Len(w) = IF ty = I64 THEN 2 ELSE 1 }
StLdCalls(p) ==
    { Call(p.name, <<I32, p.tv>>, << <<d>>, w >>, p.tr) :
        d \in Addresses, w \in StoredAs(p.tv) }
NumCalls ==
    { Call(f, <<>>, <<>>, I64) : f \in {"c64neg", "c64pos", "c64two"} }
    \cup { Call(f, <<I32, I32>>, << <<a>>, <<b>> >>, I32) :
              f \in {"add", "sub", "mul"}, a \in EdgeI32, b \in EdgeI32 }
    \cup { Call("shru", <<I32, I32>>, << <<a>>, <<n>> >>, I32) :
              a \in EdgeI32, n \in ShiftCounts }
    \cup { Call("wrap", <<I64>>, << <<lo, hi>> >>, I32) : lo \in EdgeI32, hi \in {-1, 0, 7} }
    \cup { Call("extu", <<I32>>, << <<a>> >>, I64) : a \in EdgeI32 }
    \cup { Call("ext8", <<I32>>, << <<a>> >>, I32) : a \in EdgeI32 }
    \cup UNION { StLdCalls(StLdPairs[k]) : k \in 1..Len(StLdPairs) }

InitNum ==
    /\ debug \in BOOLEAN
    /\ module = NumModule
    /\ stack = NewStack /\ call_stack = <<>>
    /\ locals = <<>> /\ profile = EmptyMap /\ memory = NumMemory
    /\ globals = <<>> /\ pc = "idle" /\ cur = Input(NoCall)
    /\ result = NoResult /\ log = {} /\ ninv = 0
    /\ trace = [locals_len |-> 0, steps |-> 0, host |-> <<>>, dispatched |-> EmptyBag]
    /\ ScanOff /\ StackOff

\* The host's one call of execute_function
NumInvoke ==
    /\ pc = "idle" /\ cur.call = NoCall
    /\ \E c \in NumCalls : StartCall(c)

OpI32Mul ==
    Fetched(108) /\ \E out \in {exec_i32_mul(Fetch.pos)} : Commit(108, out)
OpI32ShrU ==
    Fetched(118) /\ \E out \in {exec_i32_shr_u(Fetch.pos)} : Commit(118, out)
OpI32WrapI64 ==
    Fetched(167) /\ \E out \in {exec_i32_wrap_i64(Fetch.pos)} : Commit(167, out)
OpI64ExtendI32U ==
    Fetched(173) /\ \E out \in {exec_i64_extend_i32_u(Fetch.pos)} : Commit(173, out)
OpI32Extend8S ==
    Fetched(192) /\ \E out \in {exec_i32_extend8_s(Fetch.pos)} : Commit(192, out)

NextNum ==
    \/ NumInvoke
    \/ OpEnd \/ OpLocalGet \/ OpI64Const
    \/ OpI32Add \/ OpI32Sub \/ OpI32Mul \/ OpI32ShrU
    \/ OpI32WrapI64 \/ OpI64ExtendI32U \/ OpI32Extend8S
    \/ OpLoad \/ OpStore
    \/ FrameEnd \/ Return

SpecNum == InitNum /\ [][NextNum]_vars

\* The value on top of the stack after the step, read as kind ty
PushedAs(ty) == pop_kind(stack', ty).val

\* What execute_initializer yields for the constant the interpreter is at
ConstExpr ==
    execute_initializer(Slice(CurBody.code, Top.pos, ImmSigned.pos) \o <<11>>,
                        0, Void, 0)

\* C33: i64.const decodes its immediate as a signed LEB128 and pushes that
\* value (0x7F pushes -1), and the value pushed equals the value the
\* constant-expression evaluator yields for the same immediate bytes.
C33_I64ConstSigned ==
    [][(Fetched(66) /\ ImmSigned.st = "ok") =>
          /\ pc' = "running"
          /\ PushedAs(I64) = W64(ImmSigned.val)
          /\ ConstExpr.kind = I64 /\ PushedAs(I64) = W64(ConstExpr.val)]_vars

-----------------------------------------------------------------------------
(* SpecLeb: read_unsigned and read_signed over the whole 64-bit range.     *)
(* A u64 is its 64 bits, least significant first, so that no bit is lost.  *)

Bit(byte, j) == (byte \div Pow2(j)) % 2
ZeroBits == [i \in 1..64 |-> 0]

\* result |= u64::from(byte & 0x7F) << sh
or_group(acc, byte, sh) ==
    [i \in 1..64 |-> IF i - 1 >= sh /\ i - 1 < sh + 7 /\ Bit(byte, i - 1 - sh) = 1
                     THEN 1 ELSE acc[i]]

\* read_number_raw on 64 bits: [st, val, byte, shift, pos].  A shift of 64
\* or more overflows `<<`: a panic in a debug build, a shift by shift % 64
\* in a release build
RECURSIVE read_number_loop_64(_, _, _, _)
read_number_byte_64(data, acc, shift, r) ==
    IF r.st # "ok"
    THEN [st |-> r.st, val |-> acc, byte |-> 0, shift |-> shift, pos |-> r.pos]
    ELSE IF shift >= 64 /\ debug
    THEN [st |-> "panic", val |-> acc, byte |-> r.val, shift |-> shift, pos |-> r.pos]
    ELSE IF r.val < 128
    THEN [st |-> "ok", val |-> or_group(acc, r.val, shift % 64), byte |-> r.val,
          shift |-> shift + 7, pos |-> r.pos]
    ELSE read_number_loop_64(data, r.pos, or_group(acc, r.val, shift % 64), shift + 7)
read_number_loop_64(data, pos, acc, shift) ==
    read_number_byte_64(data, acc, shift, read_u8(data, pos))
read_number_raw_64(data, pos) == read_number_loop_64(data, pos, ZeroBits, 0)

\* read_unsigned: the raw result
unsigned_of_64(r) == [st |-> r.st, val |-> r.val, pos |-> r.pos]
read_unsigned_64(data, pos) == unsigned_of_64(read_number_raw_64(data, pos))

\* A read_signed that never sign-extends
signed_of_64_plain(r) == [st |-> r.st, val |-> r.val, pos |-> r.pos]

\* read_signed: result | (u64::MAX << shift) when shift < 64 and the last
\* byte has 0x40
signed_of_64(r) ==
    IF r.st = "ok" /\ r.shift < 64 /\ Bit(r.byte, 6) = 1
    THEN [st |-> "ok", pos |-> r.pos,
          val |-> [i \in 1..64 |-> IF i - 1 >= r.shift THEN 1 ELSE r.val[i]]]
    ELSE [st |-> r.st, val |-> r.val, pos |-> r.pos]
read_signed_64(data, pos) == signed_of_64(read_number_raw_64(data, pos))

\* The integers of the i64 range the reads are tried on, in two's complement:
\* 2^k, 2^k - 1, -(2^k) and -(2^k) - 1
OneAt(k)    == [i \in 1..64 |-> IF i - 1 = k THEN 1 ELSE 0]
LowOnes(k)  == [i \in 1..64 |-> IF i - 1 < k THEN 1 ELSE 0]
HighOnes(k) == [i \in 1..64 |-> IF i - 1 >= k THEN 1 ELSE 0]
ZeroAt(k)   == [i \in 1..64 |-> IF i - 1 = k THEN 0 ELSE 1]
LebValues ==
    UNION { {OneAt(k), LowOnes(k), HighOnes(k), ZeroAt(k)} : k \in 0..63 }

\* Signed LEB128 of v, as the format defines it: seven bits at a time, least
\* significant first, until the rest is the sign alone
AsrSeven(v) == [i \in 1..64 |-> IF i + 7 <= 64 THEN v[i + 7] ELSE v[64]]
LowSeven(v) == v[1] + 2 * v[2] + 4 * v[3] + 8 * v[4] + 16 * v[5] + 32 * v[6] + 64 * v[7]
SignOnly(v) == \A i \in 1..64 : v[i] = v[64]
RECURSIVE Sleb(_)
Sleb(v) ==
    IF SignOnly(AsrSeven(v)) /\ v[7] = v[64] THEN <<LowSeven(v)>>
    ELSE <<LowSeven(v) + 128>> \o Sleb(AsrSeven(v))

\* The encoding made one byte longer than it has to be
Padded(enc, v) ==
    SubSeq(enc, 1, Len(enc) - 1) \o <<enc[Len(enc)] + 128, IF v[64] = 1 THEN 127 ELSE 0>>

\* The encodings of v tried: the shortest, enc, and the padded one where it
\* still fits the ten bytes of a 64-bit LEB128
Encodings(v, enc) == IF Len(enc) < 10 THEN {enc, Padded(enc, v)} ELSE {enc}

\* The bytes after the number: the reads must stop before them
LebTail == <<255, 1>>

LebInput(v, enc) == [value |-> v, enc |-> enc, read |-> <<>>]

InitLeb ==
    /\ debug \in BOOLEAN
    /\ module = NewModule /\ stack = NewStack /\ call_stack = <<>>
    /\ locals = <<>> /\ profile = EmptyMap /\ memory = <<>>
    /\ globals = <<>> /\ pc = "leb" /\ cur = Input(NoCall)
    /\ result = NoResult /\ log = {} /\ ninv = 0
    /\ trace = [locals_len |-> 0, steps |-> 0, host |-> <<>>, dispatched |-> EmptyBag]
    /\ \E v \in LebValues : \E enc \in Encodings(v, Sleb(v)) :
            /\ pstate = LebInput(v, enc)
            /\ rdata = enc \o LebTail
    /\ rpos = 0 /\ marker = 0 /\ pstatus = "unread"
    /\ StackOff

LebApply(r, status) ==
    /\ pstate' = [pstate EXCEPT !.read = r.val]
    /\ rpos' = r.pos
    /\ pstatus' = IF r.st = "ok" THEN status ELSE r.st
    /\ UNCHANGED <<vmVars, rdata, marker, lastop>>

\* reader.read_signed() / reader.read_unsigned() on a fresh Reader
LebReadSigned ==
    pc = "leb" /\ pstatus = "unread" /\ LebApply(read_signed_64(rdata, 0), "signed")
LebReadUnsigned ==
    pc = "leb" /\ pstatus = "unread" /\ LebApply(read_unsigned_64(rdata, 0), "unsigned")

NextLeb == LebReadSigned \/ LebReadUnsigned

SpecLeb == InitLeb /\ [][NextLeb]_vars

\* The seven-bit groups of enc put side by side, as far as 64 bits hold them
GroupBits(enc) ==
    [i \in 1..64 |-> IF (i - 1) \div 7 < Len(enc)
                     THEN Bit(enc[((i - 1) \div 7) + 1] % 128, (i - 1) % 7) ELSE 0]

\* Bit 0x40 of the last byte is set and fewer than 64 bits were read
SignExtends(enc) == Bit(enc[Len(enc)], 6) = 1 /\ 7 * Len(enc) < 64

\* C34: read_signed decodes standard signed LEB128: for every integer v of
\* the i64 range it returns v and advances the cursor by the encoding's
\* length, sign-extending exactly when bit 0x40 of the last byte is set and
\* fewer than 64 bits were read; read_unsigned returns the unsigned value of
\* the same bytes.
C34_ReadSignedStandard ==
    /\ pc = "leb" => pstatus \in {"unread", "signed", "unsigned"}
    /\ (pc = "leb" /\ pstatus = "signed") =>
          /\ pstate.read = pstate.value
          /\ rpos = Len(pstate.enc)
          /\ pstate.read = [i \in 1..64 |->
                               IF SignExtends(pstate.enc) /\ i - 1 >= 7 * Len(pstate.enc)
                               THEN 1 ELSE GroupBits(pstate.enc)[i]]
    /\ (pc = "leb" /\ pstatus = "unsigned") =>
          /\ pstate.read = GroupBits(pstate.enc)
          /\ rpos = Len(pstate.enc)

\* i64::MIN, ten bytes long, has been read back
C34_MinRead ==
    /\ pc = "leb" /\ pstatus = "signed"
    /\ pstate.value = OneAt(63) /\ Len(pstate.enc) = 10
    /\ pstate.read = OneAt(63)

\* The integers modulo 2^32 as two 16-bit halves <<high, low>>, and the
\* arithmetic of that ring
Halves(a) == <<(a \div 65536) % 65536, a % 65536>>
FromHalves(x) == (IF x[1] >= 32768 THEN x[1] - 65536 ELSE x[1]) * 65536 + x[2]
AddH(x, y) ==
    <<(x[1] + y[1] + ((x[2] + y[2]) \div 65536)) % 65536, (x[2] + y[2]) % 65536>>
NegH(x) == AddH(<<65535 - x[1], 65535 - x[2]>>, <<0, 1>>)
\* x * y modulo 2^16 for 16-bit x and y, and x * y in full as halves
MulLow(x, y) == (x * (y % 256) + ((x * (y \div 256)) % 256) * 256) % 65536
MulFull(x, y) ==
    AddH(Halves(x * (y % 256)),
         <<(x * (y \div 256)) \div 256, ((x * (y \div 256)) % 256) * 256>>)
MulH(x, y) ==
    AddH(MulFull(x[2], y[2]), <<(MulLow(x[1], y[2]) + MulLow(x[2], y[1])) % 65536, 0>>)

\* a op b modulo 2^32, read as i32
Wrapped(op, a, b) ==
    CASE op = 106 -> FromHalves(AddH(Halves(a), Halves(b)))
      [] op = 107 -> FromHalves(AddH(Halves(a), NegH(Halves(b))))
      [] op = 108 -> FromHalves(MulH(Halves(a), Halves(b)))

\* The interpreter is at op with its operands on the stack
AtBinary(ops) == FetchedIn(ops) /\ OperandA(I32, I32).st = "ok"

\* C35: i32.add, i32.sub and i32.mul push the two's-complement wrapped result
\* for every pair of operands, also where the mathematical result lies
\* outside the i32 range; the invocation does not abort on overflow.
C35_ArithmeticWraps ==
    [][AtBinary({106, 107, 108}) =>
          /\ pc' = "running"
          /\ PushedAs(I32)
                = Wrapped(Fetch.val, OperandA(I32, I32).val, OperandB(I32).val)]_vars

\* The interpreter is at a unary op with its operand of kind ty on the stack
AtUnary(op, ty) == Fetched(op) /\ pop_kind(stack, ty).st = "ok"
UnaryArg(ty) == pop_kind(stack, ty).val

\* The low eight bits of a, read as a signed byte
SignedLow8(a) == IF a % 256 >= 128 THEN (a % 256) - 256 ELSE a % 256

\* C36: the conversion handlers give the WebAssembly-defined result for every
\* input: i32.wrap_i64 pushes the low 32 bits of any i64, i64.extend_i32_u
\* zero-extends, and i32.extend8_s sign-extends the low 8 bits of its operand.
C36_ConversionsDefined ==
    [][/\ AtUnary(167, I64) =>
            pc' = "running" /\ PushedAs(I32) = UnaryArg(I64).lo
       /\ AtUnary(173, I32) =>
            pc' = "running" /\ PushedAs(I64) = [hi |-> 0, lo |-> UnaryArg(I32)]
       /\ AtUnary(192, I32) =>
            pc' = "running" /\ PushedAs(I32) = SignedLow8(UnaryArg(I32))]_vars

\* C37: i32.shr_u is a logical right shift: zeros are shifted in, so that an
\* operand with the sign bit set and a count of at least 1 gives a
\* non-negative result, and the count is taken modulo 32.
C37_ShrULogical ==
    [][AtBinary({118}) =>
          /\ pc' = "running"
          /\ PushedAs(I32)
                = i32_shr_logical(OperandA(I32, I32).val, OperandB(I32).val)
          /\ OperandB(I32).val % 32 # 0 => PushedAs(I32) >= 0]_vars

\* The store/load pair the invocation in progress runs, if it runs one
InPair == \E k \in 1..Len(StLdPairs) : StLdPairs[k].name = cur.call.name
CurPair == StLdPairs[CHOOSE k \in 1..Len(StLdPairs) : StLdPairs[k].name = cur.call.name]

\* The interpreter is at the pair's store with value and address on the
\* stack, or at its load with the address on the stack
AtPairStore ==
    /\ InPair /\ FetchedIn({CurPair.st})
    /\ pop_i32(pop_kind(stack, CurPair.tv).stack).st = "ok"
AtPairLoad == InPair /\ FetchedIn({CurPair.ld}) /\ pop_i32(stack).st = "ok"
StoreValue == pop_kind(stack, CurPair.tv).val
StoreAddr == pop_i32(pop_kind(stack, CurPair.tv).stack).val
LoadAddr == pop_i32(stack).val

\* The n bytes at static offset off + dynamic address d, d read as unsigned,
\* lie inside memory
InMemory(d, off, n) == d >= 0 /\ off + d + n <= Len(memory)

\* Byte k (0 the least significant) of an i32, and of a value of kind ty
ByteOf(x, k) == (x \div Pow2(8 * k)) % 256
ValueByte(ty, v, k) ==
    IF ty # I64 THEN ByteOf(v, k)
    ELSE IF k < 4 THEN ByteOf(v.lo, k) ELSE ByteOf(v.hi, k - 4)

\* The low n bytes of v (of kind tv) extended to kind tr
LowWord(tv, v) == IF tv = I64 THEN v.lo ELSE v
Narrow(x, n, signed) ==
    IF signed /\ x % Pow2(8 * n) >= Pow2(8 * n - 1)
    THEN (x % Pow2(8 * n)) - Pow2(8 * n) ELSE x % Pow2(8 * n)
Widen(tr, x, signed) ==
    IF tr = I64 THEN [hi |-> IF signed /\ x < 0 THEN -1 ELSE 0, lo |-> x] ELSE x
Extended(p, v) ==
    IF p.n = 8 THEN v
    ELSE IF p.n = 4 THEN Widen(p.tr, LowWord(p.tv, v), p.signed)
    ELSE Widen(p.tr, Narrow(LowWord(p.tv, v), p.n, p.signed), p.signed)

\* The value the host passed as the pair's second argument
PassedValue == Val(CurPair.tv, cur.call.vals[2])

\* C38: a store of width N at ea = static_offset + dynamic address writes
\* exactly the N low-order bytes of the operand, little-endian, to
\* memory[ea .. ea+N) and changes no other byte; a following load of the same
\* width at the same address returns the stored value, sign-extended (_s) or
\* zero-extended (_u) to the result width.
C38_StoreLoadRoundTrip ==
    [][/\ (AtPairStore /\ InMemory(StoreAddr, CurPair.off, CurPair.n)) =>
            /\ pc' = "running"
            /\ memory' = [i \in 1..Len(memory) |->
                            IF /\ i - 1 >= CurPair.off + StoreAddr
                               /\ i - 1 < CurPair.off + StoreAddr + CurPair.n
                            THEN ValueByte(CurPair.tv, StoreValue,
                                           i - 1 - (CurPair.off + StoreAddr))
                            ELSE memory[i]]
       /\ (AtPairLoad /\ InMemory(LoadAddr, CurPair.off, CurPair.n)) =>
            /\ pc' = "running"
            /\ memory' = memory
            /\ PushedAs(CurPair.tr) = Extended(CurPair, PassedValue)]_vars

\* i64.store8 of ..0080 at 9, read back by i64.load8_s as -128
C38_NarrowSignedReadBack ==
    /\ pc = "idle" /\ cur.call.name = "d8s" /\ cur.call.vals = << <<9>>, <<128, -1>> >>
    /\ result = OkResult(<<-128, -1>>)
    /\ memory = [NumMemory EXCEPT ![10] = 128]

\* C39: the dynamic address operand of every load and store is treated as an
\* unsigned 32-bit value: an operand with the sign bit set adds at least 2^31
\* to the static offset and never addresses a byte below the static offset,
\* so that no access with such an operand falls inside this memory.
C39_AddressUnsigned ==
    [][/\ (AtPairStore /\ StoreAddr < 0) => pc' # "running"
       /\ (AtPairLoad /\ LoadAddr < 0) => pc' # "running"]_vars

=============================================================================
